---------------------------- MODULE Spec2Model ----------------------------
(***************************************************************************)
(* Naming / versioning and entity-lifecycle core of the supply-chain       *)
(* planning application: nextAutoName, ensureProject, ensureScenario,      *)
(* renameProject, createResult, against a store that enforces the unique   *)
(* constraints of the migrations.                                          *)
(*                                                                         *)
(* A name is a sequence of one-character strings, so that building         *)
(* "{base} {i}" and matching ^{base}\s+(\d+)$ are computed character by    *)
(* character.  Every await of the source (one store round trip) is one     *)
(* step of a call; what runs between two awaits is part of the same step.  *)
(***************************************************************************)
EXTENDS Integers, Sequences, FiniteSets, TLC

VARIABLES
  projects,    \* table projects: set of rows
  scenarios,   \* table scenarios: set of rows
  outputs,     \* table scenario_outputs: set of rows
  clock,       \* the store's now(), strictly increasing
  nextId,      \* the store's id generator (gen_random_uuid)
  call,        \* call[p]: the call client p is running, or idle
  variant,     \* which ensureProject implementation is deployed
  authUser,    \* useAuth().user of the sessions: the signed-in user, or none
  flaky,       \* whether store calls may fail with an error other than 23505
  started,     \* number of calls started so far (bounded)
  history,     \* per scenario, the results created and deleted, in order
  existing,    \* nextAutoName under test: the names listExisting() returns
  base,        \* nextAutoName under test: the base label
  out,         \* nextAutoName under test: the returned name, <<>> before the call
  localStorage, \* window.localStorage: the item stored under each key, or none
  local        \* the last call of the local result history and what it returned

vars == <<projects, scenarios, outputs, clock, nextId, call, variant, authUser,
          flaky,
          started, history, existing, base, out, localStorage, local>>

\* what does not change while the sessions run
envVars == <<variant, authUser, flaky>>

storeVars == <<projects, scenarios, outputs, clock, nextId>>
nameVars == <<existing, base, out>>
localVars == <<localStorage, local>>

-----------------------------------------------------------------------------
(* Characters *)

UpperChars == <<"A","B","C","D","E","F","G","H","I","J","K","L","M",
                "N","O","P","Q","R","S","T","U","V","W","X","Y","Z">>
LowerChars == <<"a","b","c","d","e","f","g","h","i","j","k","l","m",
                "n","o","p","q","r","s","t","u","v","w","x","y","z">>
DigitChars == <<"0","1","2","3","4","5","6","7","8","9">>

\* \d of the regular expression
DigitSet == { DigitChars[i] : i \in 1..10 }
IsDigit(c) == c \in DigitSet

\* \s of the regular expression (the white space the model's names can hold)
IsSpace(c) == c \in {" ", "\t"}

DigitValue == [c \in DigitSet |-> (CHOOSE i \in 1..10 : DigitChars[i] = c) - 1]
DigitVal(c) == DigitValue[c]

\* case folding of the regular expression's i flag
FoldTable == [c \in { UpperChars[i] : i \in 1..26 } |->
                LowerChars[CHOOSE i \in 1..26 : UpperChars[i] = c]]
Fold(c) == IF c \in DOMAIN FoldTable THEN FoldTable[c] ELSE c

FoldAll(s) == [i \in 1..Len(s) |-> Fold(s[i])]

\* parseInt(digits, 10) on a non-empty run of decimal digits
RECURSIVE parseInt(_)
parseInt(ds) ==
  IF Len(ds) = 0 THEN 0
  ELSE 10 * parseInt(SubSeq(ds, 1, Len(ds) - 1)) + DigitVal(ds[Len(ds)])

\* `${i}` for a positive integer i
RECURSIVE toDecimal(_)
toDecimal(i) ==
  IF i < 10 THEN <<DigitChars[i + 1]>>
  ELSE toDecimal(i \div 10) \o <<DigitChars[(i % 10) + 1]>>

-----------------------------------------------------------------------------
(* nextAutoName *)

\* (mutant) the expression built without the label: \s+(\d+)$
DigitStarts_noLabel(n, b) ==
  { k \in 2..Len(n) : IsSpace(n[k - 1]) /\ \A j \in k..Len(n) : IsDigit(n[j]) }

\* The places where the digits of a match of ^{b}\s+(\d+)$ (flag i) can start
\* in name n: the base, folded, then one or more spaces, then digits to the end.
DigitStarts(n, b) ==
  IF Len(n) < Len(b) + 2 \/ FoldAll(SubSeq(n, 1, Len(b))) # FoldAll(b)
  THEN {}
  ELSE { k \in (Len(b) + 2)..Len(n) :
           /\ \A j \in (Len(b) + 1)..(k - 1) : IsSpace(n[j])
           /\ \A j \in k..Len(n) : IsDigit(n[j]) }

\* n.match(re) is not null
MatchesAutoName(n, b) == DigitStarts(n, b) # {}

\* m[1] of the match: \s+ is greedy and \d+ takes the rest
MatchedDigits(n, b) ==
  LET k == CHOOSE k \in DigitStarts(n, b) : TRUE
  IN  SubSeq(n, k, Len(n))

\* the set `used`
UsedNumbers(names, b) ==
  { parseInt(MatchedDigits(n, b)) : n \in { m \in names : MatchesAutoName(m, b) } }

\* (mutant) count + 1 instead of the first gap
firstUnused_countPlusOne(used, i) == Cardinality(used) + i

\* let i = 1; while (used.has(i)) i++
RECURSIVE firstUnused(_, _)
firstUnused(used, i) == IF i \in used THEN firstUnused(used, i + 1) ELSE i

\* (mutant) the name built from the label as it is compared, in lower case
autoName_foldedLabel(b, i) == FoldAll(b) \o <<" ">> \o toDecimal(i)

\* `${base} ${i}`
autoName(b, i) == b \o <<" ">> \o toDecimal(i)

nextAutoName(names, b) == autoName(b, firstUnused(UsedNumbers(names, b), 1))

-----------------------------------------------------------------------------
(* Names and labels the model's clients use *)

GFA == <<"G","F","A">>
DF == <<"D","F">>
IO == <<"I","O">>
Network == <<"N","e","t","w","o","r","k">>
Transport == <<"T","r","a","n","s","p","o","r","t">>
Project == <<"P","r","o","j","e","c","t">>
Scenario == <<"S","c","e","n","a","r","i","o">>
Result == <<"R","e","s","u","l","t">>

ToolType == {"gfa", "forecasting", "network", "inventory", "transportation"}

\* (mutant) every tool type takes the default branch
getModulePrefix_default(toolType) == Project

getModulePrefix(toolType) ==
  CASE toolType = "gfa" -> GFA
    [] toolType = "forecasting" -> DF
    [] toolType = "inventory" -> IO
    [] toolType = "network" -> Network
    [] toolType = "transportation" -> Transport
    [] OTHER -> Project

\* The clients are sessions (browser tabs) of one signed-in user; another
\* user's rows are in the store from the start.
Clients == {1, 2}
Me == "u1"
Other == "u2"

\* const { user } = useAuth(): no user is signed in
NoUser == "null"

\* (mutant) the test for a missing user left out
NotAuthenticated_never(u) == FALSE

\* if (!user)
NotAuthenticated(u) == u = NoUser

\* tool types and module types the clients work in
UsedToolTypes == {"gfa", "forecasting"}

\* names a user types into the create / rename dialogs
Plan == <<"P","l","a","n">>
TypedProjectNames == {GFA \o <<" ","1">>, Project \o <<" ","1">>, Plan}

-----------------------------------------------------------------------------
(* Calls *)

NoRet == [kind |-> "none"]
NullRet == [kind |-> "null"]
RowRet(r) == [kind |-> "row", row |-> r]
Success == [kind |-> "status", success |-> TRUE, error |-> <<>>]
Failure(msg) == [kind |-> "status", success |-> FALSE, error |-> msg]

\* a list of rows, as listResults returns it
ListRet(rows) == [kind |-> "list", rows |-> rows]

\* an exception that leaves the function
Thrown(error) == [kind |-> "thrown", error |-> error]

\* the store's errors: a violated unique constraint, and any other failure
\* (connection lost, timeout, permission denied, ...)
UniqueViolation == [code |-> "23505"]
StoreFailure == [code |-> "other"]

\* catch (error) { console.error(...); return null; }
ensureProject_catch(error) == NullRet
ensureProjectRecent_catch(error) == NullRet
ensureScenario_catch(error) == NullRet
getResult_catch(error) == NullRet

\* (mutant) no catch: the error leaves createResult
createResult_catch_rethrow(error) == Thrown(error)

createResult_catch(error) == NullRet

\* catch (error) { ...; return []; }
listResults_catch(error) == ListRet(<<>>)

\* catch (error) { ...; return { success: false, error: 'Failed to rename ...' }; }
renameProject_catch(error) == Failure(<<"Failed to rename project">>)
renameScenario_catch(error) == Failure(<<"Failed to rename scenario">>)
renameResult_catch(error) == Failure(<<"Failed to rename result">>)

\* `A project named '${newName}' already exists. Please choose a different name.`
ProjectExistsMessage(newName) ==
  <<"A project named '", newName, "' already exists. Please choose a different name.">>

\* A call's arguments (user, scope, target, newName), its locals (name, num),
\* its position and result, and a record of what it did at the store:
\*   seq       the call is the seq-th call started
\*   found     its first query returned a row
\*   inserts   inserts it issued;  created: rows it inserted
\*   updates   updates it issued
\*   conflict  an insert or update of it was refused as a uniqueness
\*             violation (code 23505)
\*   trips     store round trips it made
\*   lookupError  its first query failed with a store error
\*   limit, offset  (listResults) its options
\*   statusFrom, statusTo  the last change of a scenario's status it made
\*   taken     (rename) when it started, another row of the scope had newName
\*   own       (rename) when it started, the target row itself had newName
\*   ui        the handler of the page that makes the call, "" for a direct call
\*   before    (handler) the rows of the scope when the handler started
\*   saved     the number saveScenarioOutput returned, 0 before it returns
Idle == [op |-> "idle", pc |-> "idle", user |-> "", scope |-> "", target |-> 0,
         newName |-> <<>>, name |-> <<>>, num |-> 0, ret |-> NoRet, seq |-> 0,
         found |-> FALSE, inserts |-> 0, created |-> 0, updates |-> 0,
         conflict |-> FALSE, taken |-> FALSE, own |-> FALSE, trips |-> 0,
         lookupError |-> FALSE, limit |-> 0, offset |-> 0,
         statusFrom |-> "", statusTo |-> "", ui |-> "", before |-> {},
         saved |-> 0]

\* a client starts a call when it is not inside one
Free(p) == call[p].pc \in {"idle", "done"}

MaxCalls == 3

CanStart(p) == Free(p) /\ started < MaxCalls

Begin(p, op, pc, user, scope, target, newName) ==
  [Idle EXCEPT !.op = op, !.pc = pc, !.user = user, !.scope = scope,
               !.target = target, !.newName = newName, !.seq = started + 1,
               !.trips = 1]

\* one more store round trip of call c
Trip(c) == [c EXCEPT !.trips = @ + 1]

Return(c, r) == [c EXCEPT !.pc = "done", !.ret = r]

\* if (!user) return ...: the provider returns before any store call
FailFast(p, op, scope, target, newName, r) ==
  /\ CanStart(p)
  /\ NotAuthenticated(authUser)
  /\ started' = started + 1
  /\ call' = [call EXCEPT ![p] =
                [Idle EXCEPT !.op = op, !.pc = "done", !.user = authUser, !.scope = scope,
                             !.target = target, !.newName = newName,
                             !.seq = started + 1, !.ret = r]]
  /\ UNCHANGED <<storeVars, envVars, history, nameVars, localVars>>

\* { success: false, error: 'Not authenticated' }
NotAuthenticatedFailure == Failure(<<"Not authenticated">>)

\* ProjectProvider.ensureProject / createProject / renameProject without a user
ensureProject_noUser(p, toolType) ==
  FailFast(p, IF variant = "first_found" THEN "ensureProject" ELSE "ensureProjectRecent",
           toolType, 0, <<>>, NullRet)
createProject_noUser(p, name, toolType) ==
  FailFast(p, "createProject", toolType, 0, name, NullRet)
renameProject_noUser(p, id, newName) ==
  FailFast(p, "renameProject", "", id, newName, NotAuthenticatedFailure)

\* ScenarioProvider.ensureScenario / renameScenario without a user
ensureScenario_noUser(p, projectId, moduleType) ==
  FailFast(p, "ensureScenario", moduleType, projectId, <<>>, NullRet)
renameScenario_noUser(p, id, newName) ==
  FailFast(p, "renameScenario", "", id, newName, NotAuthenticatedFailure)

-----------------------------------------------------------------------------
(* Table projects *)

ProjectRow(id, user, name, toolType, now) ==
  [id |-> id, user_id |-> user, name |-> name, tool_type |-> toolType,
   description |-> "null", input_data |-> "{}", results_data |-> "{}",
   size_mb |-> 0, created_at |-> now, updated_at |-> now]

\* (mutant) the query without .eq('tool_type', toolType)
ProjectsOf_anyToolType(user, toolType) == { r \in projects : r.user_id = user }

\* .eq('user_id', userId).eq('tool_type', toolType)
ProjectsOf(user, toolType) ==
  { r \in projects : r.user_id = user /\ r.tool_type = toolType }

\* unique_project_name_per_owner UNIQUE (user_id, name): would a row of this
\* user with this name, other than row `id`, violate it
ProjectNameTaken(user, name, id) ==
  \E r \in projects : r.user_id = user /\ r.name = name /\ r.id # id

\* (mutant) the order ascending: the least recently updated row
MostRecent_ascending(rows) == { r \in rows : \A q \in rows : r.updated_at <= q.updated_at }

\* .order('updated_at', { ascending: false }).limit(1)
MostRecent(rows) == { r \in rows : \A q \in rows : q.updated_at <= r.updated_at }

\* .limit(1) with no order: the store may return any matching row
AnyOne(rows) == rows

-----------------------------------------------------------------------------
(* ensureProject, first-found implementation *)

\* const { data: existing } = ... .eq(user_id).eq(tool_type).limit(1).single()
\* and the return of the row found
ensureProject_query(p, toolType) ==
  /\ CanStart(p)
  /\ ~NotAuthenticated(authUser)
  /\ variant = "first_found"
  /\ started' = started + 1
  /\ LET c == Begin(p, "ensureProject", "ep_list", authUser, toolType, 0, <<>>)
         rows == ProjectsOf(authUser, toolType)
     IN  IF rows = {}
         THEN call' = [call EXCEPT ![p] = c]
         ELSE \E r \in AnyOne(rows) :
                call' = [call EXCEPT ![p] = Return([c EXCEPT !.found = TRUE], RowRet(r))]
  /\ UNCHANGED <<storeVars, envVars, history, nameVars, localVars>>

\* nextAutoName over the names of this user's projects of this tool type
ensureProject_list(p) ==
  /\ call[p].op = "ensureProject" /\ call[p].pc = "ep_list"
  /\ LET names == { r.name : r \in ProjectsOf(call[p].user, call[p].scope) }
     IN  call' = [call EXCEPT ![p].trips = @ + 1, ![p].name = nextAutoName(names, getModulePrefix(call[p].scope)),
                              ![p].pc = "ep_insert"]
  /\ UNCHANGED <<storeVars, envVars, started, history, nameVars, localVars>>

\* .insert([{ user_id, name, tool_type, ... }]).select().single()
ensureProject_insert(p) ==
  /\ call[p].op = "ensureProject" /\ call[p].pc = "ep_insert"
  /\ LET c == Trip([call[p] EXCEPT !.inserts = @ + 1])
         row == ProjectRow(nextId, c.user, c.name, c.scope, clock)
     IN  IF ProjectNameTaken(c.user, c.name, nextId)
         THEN /\ call' = [call EXCEPT ![p] = [c EXCEPT !.pc = "ep_requery", !.conflict = TRUE]]
              /\ UNCHANGED storeVars
         ELSE /\ projects' = projects \cup {row}
              /\ nextId' = nextId + 1
              /\ clock' = clock + 1
              /\ call' = [call EXCEPT ![p] = Return([c EXCEPT !.created = @ + 1], RowRet(row))]
              /\ UNCHANGED <<scenarios, outputs>>
  /\ UNCHANGED <<envVars, started, history, nameVars, localVars>>

\* after 23505: fetch again instead of creating another; throw createError
\* (caught: return null) when nothing is found
ensureProject_requery(p) ==
  /\ call[p].op = "ensureProject" /\ call[p].pc = "ep_requery"
  /\ LET rows == ProjectsOf(call[p].user, call[p].scope)
     IN  IF rows = {}
         THEN call' = [call EXCEPT ![p] =
                         Return(Trip(call[p]), ensureProject_catch(UniqueViolation))]
         ELSE \E r \in AnyOne(rows) :
                call' = [call EXCEPT ![p] = Return(Trip(call[p]), RowRet(r))]
  /\ UNCHANGED <<storeVars, envVars, started, history, nameVars, localVars>>

-----------------------------------------------------------------------------
(* ensureProject, most-recently-updated implementation *)

\* ... .order('updated_at', { ascending: false }).limit(1).single()
ensureProjectRecent_query(p, toolType) ==
  /\ CanStart(p)
  /\ ~NotAuthenticated(authUser)
  /\ variant = "most_recent"
  /\ started' = started + 1
  /\ LET c == Begin(p, "ensureProjectRecent", "epr_list", authUser, toolType, 0, <<>>)
         rows == ProjectsOf(authUser, toolType)
     IN  IF rows = {}
         THEN call' = [call EXCEPT ![p] = c]
         ELSE \E r \in MostRecent(rows) :
                call' = [call EXCEPT ![p] = Return([c EXCEPT !.found = TRUE], RowRet(r))]
  /\ UNCHANGED <<storeVars, envVars, history, nameVars, localVars>>

\* nextAutoName over the names of all this user's projects, base 'Project';
\* the same listing computes retryName after a conflict
ensureProjectRecent_list(p) ==
  /\ call[p].op = "ensureProjectRecent" /\ call[p].pc \in {"epr_list", "epr_retry_list"}
  /\ LET names == { r.name : r \in { q \in projects : q.user_id = call[p].user } }
     IN  call' = [call EXCEPT ![p].trips = @ + 1, ![p].name = nextAutoName(names, Project),
                              ![p].pc = IF call[p].pc = "epr_list" THEN "epr_insert"
                                        ELSE "epr_retry_insert"]
  /\ UNCHANGED <<storeVars, envVars, started, history, nameVars, localVars>>

\* the insert, and the second insert with retryName; a conflict on the first
\* leads to the retry, a conflict on the second is thrown (caught: return null)
ensureProjectRecent_insert(p) ==
  /\ call[p].op = "ensureProjectRecent" /\ call[p].pc \in {"epr_insert", "epr_retry_insert"}
  /\ LET c == Trip([call[p] EXCEPT !.inserts = @ + 1])
         row == ProjectRow(nextId, c.user, c.name, c.scope, clock)
     IN  IF ProjectNameTaken(c.user, c.name, nextId)
         THEN /\ call' = [call EXCEPT ![p] =
                            IF c.pc = "epr_insert"
                            THEN [c EXCEPT !.pc = "epr_retry_list", !.conflict = TRUE]
                            ELSE Return([c EXCEPT !.conflict = TRUE],
                                        ensureProjectRecent_catch(UniqueViolation))]
              /\ UNCHANGED storeVars
         ELSE /\ projects' = projects \cup {row}
              /\ nextId' = nextId + 1
              /\ clock' = clock + 1
              /\ call' = [call EXCEPT ![p] = Return([c EXCEPT !.created = @ + 1], RowRet(row))]
              /\ UNCHANGED <<scenarios, outputs>>
  /\ UNCHANGED <<envVars, started, history, nameVars, localVars>>

-----------------------------------------------------------------------------
(* createProject (ProjectProvider) *)

\* .insert([{ ...project, user_id: user.id }]).select().single(); null on error
createProject(p, name, toolType) ==
  /\ CanStart(p)
  /\ ~NotAuthenticated(authUser)
  /\ started' = started + 1
  /\ LET c == [Begin(p, "createProject", "done", authUser, toolType, 0, name)
                 EXCEPT !.inserts = 1]
         row == ProjectRow(nextId, authUser, name, toolType, clock)
     IN  IF ProjectNameTaken(authUser, name, nextId)
         THEN /\ call' = [call EXCEPT ![p] = Return([c EXCEPT !.conflict = TRUE], NullRet)]
              /\ UNCHANGED storeVars
         ELSE /\ projects' = projects \cup {row}
              /\ nextId' = nextId + 1
              /\ clock' = clock + 1
              /\ call' = [call EXCEPT ![p] = Return([c EXCEPT !.created = @ + 1], RowRet(row))]
              /\ UNCHANGED <<scenarios, outputs>>
  /\ UNCHANGED <<envVars, history, nameVars, localVars>>

-----------------------------------------------------------------------------
(* renameProject *)

\* (mutant) .eq('id', id) in place of .neq('id', id)
renameProject_existing_sameId(user, newName, id) ==
  { r \in projects : r.user_id = user /\ r.name = newName /\ r.id = id }

\* (mutant) without .neq('id', id)
renameProject_existing_anyId(user, newName, id) ==
  LET rows == { r \in projects : r.user_id = user /\ r.name = newName }
  IN  IF Cardinality(rows) = 1 THEN rows ELSE {}

\* if (error) { if (error.code === '23505') return { success: false, error:
\* `A project named ...` }; throw error; }
renameProject_onError(error, newName) ==
  IF error.code = "23505" THEN Failure(ProjectExistsMessage(newName))
  ELSE renameProject_catch(error)

\* .select('id').eq('user_id', userId).eq('name', newName).neq('id', id).single()
\* `existing` is the row when exactly one row matches, null otherwise
renameProject_existing(user, newName, id) ==
  LET rows == { r \in projects : r.user_id = user /\ r.name = newName /\ r.id # id }
  IN  IF Cardinality(rows) = 1 THEN rows ELSE {}

\* the pre-check and the return of the "already exists" failure
renameProject_check(p, id, newName) ==
  /\ CanStart(p)
  /\ ~NotAuthenticated(authUser)
  /\ \E r \in projects : r.id = id /\ r.user_id = authUser
  /\ started' = started + 1
  /\ LET c == [Begin(p, "renameProject", "rp_update", authUser, "", id, newName)
                 EXCEPT !.taken = \E r \in projects :
                                    r.user_id = authUser /\ r.name = newName /\ r.id # id,
                        !.own = \E r \in projects : r.id = id /\ r.name = newName]
     IN  IF renameProject_existing(authUser, newName, id) # {}
         THEN call' = [call EXCEPT ![p] =
                         Return([c EXCEPT !.found = TRUE], Failure(ProjectExistsMessage(newName)))]
         ELSE call' = [call EXCEPT ![p] = c]
  /\ UNCHANGED <<storeVars, envVars, history, nameVars, localVars>>

\* .update({ name: newName }).eq('id', id).eq('user_id', userId)
renameProject_update(p) ==
  /\ call[p].op = "renameProject" /\ call[p].pc = "rp_update"
  /\ LET c == Trip([call[p] EXCEPT !.updates = @ + 1])
         hit == { r \in projects : r.id = c.target /\ r.user_id = c.user }
     IN  IF \E r \in hit : ProjectNameTaken(r.user_id, c.newName, r.id)
         THEN /\ call' = [call EXCEPT ![p] =
                            Return([c EXCEPT !.conflict = TRUE],
                                   renameProject_onError(UniqueViolation, c.newName))]
              /\ UNCHANGED projects
         ELSE /\ projects' = (projects \ hit) \cup
                               { [r EXCEPT !.name = c.newName] : r \in hit }
              /\ call' = [call EXCEPT ![p] = Return(c, Success)]
  /\ UNCHANGED <<scenarios, outputs, clock, nextId, envVars, started, history, nameVars, localVars>>

-----------------------------------------------------------------------------
(* Table scenarios, ensureScenario, renameScenario *)

ScenarioRow(id, projectId, user, moduleType, name, now) ==
  [id |-> id, project_id |-> projectId, user_id |-> user, module_type |-> moduleType,
   name |-> name, description |-> "null", status |-> "pending",
   created_at |-> now, updated_at |-> now]

\* .eq('project_id', projectId).eq('module_type', moduleType)
ScenariosOf(projectId, moduleType) ==
  { r \in scenarios : r.project_id = projectId /\ r.module_type = moduleType }

\* (mutant) the unique constraint dropped
ScenarioNameTaken_dropped(projectId, moduleType, name, id) == FALSE

\* unique_scenario_name_per_project_module UNIQUE (project_id, module_type, name)
ScenarioNameTaken(projectId, moduleType, name, id) ==
  \E r \in ScenariosOf(projectId, moduleType) : r.name = name /\ r.id # id

\* ... .order('updated_at', { ascending: false }).limit(1).single()
ensureScenario_query(p, projectId, moduleType) ==
  /\ CanStart(p)
  /\ ~NotAuthenticated(authUser)
  /\ started' = started + 1
  /\ LET c == Begin(p, "ensureScenario", "es_list", authUser, moduleType, projectId, <<>>)
         rows == ScenariosOf(projectId, moduleType)
     IN  IF rows = {}
         THEN call' = [call EXCEPT ![p] = c]
         ELSE \E r \in MostRecent(rows) :
                call' = [call EXCEPT ![p] = Return([c EXCEPT !.found = TRUE], RowRet(r))]
  /\ UNCHANGED <<storeVars, envVars, history, nameVars, localVars>>

\* nextAutoName over the names of the scope, base 'Scenario'; the same listing
\* computes retryName after a conflict
ensureScenario_list(p) ==
  /\ call[p].op = "ensureScenario" /\ call[p].pc \in {"es_list", "es_retry_list"}
  /\ LET names == { r.name : r \in ScenariosOf(call[p].target, call[p].scope) }
     IN  call' = [call EXCEPT ![p].trips = @ + 1, ![p].name = nextAutoName(names, Scenario),
                              ![p].pc = IF call[p].pc = "es_list" THEN "es_insert"
                                        ELSE "es_retry_insert"]
  /\ UNCHANGED <<storeVars, envVars, started, history, nameVars, localVars>>

\* the insert, and the second insert with retryName; a conflict on the first
\* leads to the retry, a conflict on the second is thrown (caught: return null)
ensureScenario_insert(p) ==
  /\ call[p].op = "ensureScenario" /\ call[p].pc \in {"es_insert", "es_retry_insert"}
  /\ LET c == Trip([call[p] EXCEPT !.inserts = @ + 1])
         row == ScenarioRow(nextId, c.target, c.user, c.scope, c.name, clock)
     IN  IF ScenarioNameTaken(c.target, c.scope, c.name, nextId)
         THEN /\ call' = [call EXCEPT ![p] =
                            IF c.pc = "es_insert"
                            THEN [c EXCEPT !.pc = "es_retry_list", !.conflict = TRUE]
                            ELSE Return([c EXCEPT !.conflict = TRUE],
                                        ensureScenario_catch(UniqueViolation))]
              /\ UNCHANGED storeVars
         ELSE /\ scenarios' = scenarios \cup {row}
              /\ nextId' = nextId + 1
              /\ clock' = clock + 1
              /\ call' = [call EXCEPT ![p] = Return([c EXCEPT !.created = @ + 1], RowRet(row))]
              /\ UNCHANGED <<projects, outputs>>
  /\ UNCHANGED <<envVars, started, history, nameVars, localVars>>

\* `A scenario named '${newName}' already exists in this module. ...`
ScenarioExistsMessage(newName) ==
  <<"A scenario named '", newName,
    "' already exists in this module. Please choose a different name.">>

\* the update's error: 23505 gives the "already exists" failure, any other
\* error is thrown
renameScenario_onError(error, newName) ==
  IF error.code = "23505" THEN Failure(ScenarioExistsMessage(newName))
  ELSE renameScenario_catch(error)

\* .select('id').eq('project_id', ..).eq('module_type', ..).eq('name', newName)
\* .neq('id', id).single()
renameScenario_existing(projectId, moduleType, newName, id) ==
  LET rows == { r \in ScenariosOf(projectId, moduleType) : r.name = newName /\ r.id # id }
  IN  IF Cardinality(rows) = 1 THEN rows ELSE {}

\* the pre-check and the return of the "already exists" failure; the scope
\* passed is the scope of the scenario being renamed
renameScenario_check(p, id, newName) ==
  /\ CanStart(p)
  /\ ~NotAuthenticated(authUser)
  /\ started' = started + 1
  /\ \E t \in scenarios :
       /\ t.id = id
       /\ LET c == [Begin(p, "renameScenario", "rs_update", authUser, t.module_type, id, newName)
                      EXCEPT !.taken = ScenarioNameTaken(t.project_id, t.module_type, newName, id),
                             !.own = (t.name = newName)]
          IN  IF renameScenario_existing(t.project_id, t.module_type, newName, id) # {}
              THEN call' = [call EXCEPT ![p] =
                              Return([c EXCEPT !.found = TRUE],
                                     Failure(ScenarioExistsMessage(newName)))]
              ELSE call' = [call EXCEPT ![p] = c]
  /\ UNCHANGED <<storeVars, envVars, history, nameVars, localVars>>

\* (mutant) the update also stamps the row: .update({ name, updated_at: now })
renameScenario_update_touch(p) ==
  /\ call[p].op = "renameScenario" /\ call[p].pc = "rs_update"
  /\ LET c == Trip([call[p] EXCEPT !.updates = @ + 1])
         hit == { r \in scenarios : r.id = c.target }
     IN  IF \E r \in hit : ScenarioNameTaken(r.project_id, r.module_type, c.newName, r.id)
         THEN /\ call' = [call EXCEPT ![p] =
                            Return([c EXCEPT !.conflict = TRUE],
                                   renameScenario_onError(UniqueViolation, c.newName))]
              /\ UNCHANGED scenarios
         ELSE /\ scenarios' = (scenarios \ hit) \cup
                                { [r EXCEPT !.name = c.newName, !.updated_at = clock] : r \in hit }
              /\ call' = [call EXCEPT ![p] = Return(c, Success)]
  /\ UNCHANGED <<projects, outputs, clock, nextId, envVars, started, history, nameVars, localVars>>

\* .update({ name: newName }).eq('id', id)
renameScenario_update(p) ==
  /\ call[p].op = "renameScenario" /\ call[p].pc = "rs_update"
  /\ LET c == Trip([call[p] EXCEPT !.updates = @ + 1])
         hit == { r \in scenarios : r.id = c.target }
     IN  IF \E r \in hit : ScenarioNameTaken(r.project_id, r.module_type, c.newName, r.id)
         THEN /\ call' = [call EXCEPT ![p] =
                            Return([c EXCEPT !.conflict = TRUE],
                                   renameScenario_onError(UniqueViolation, c.newName))]
              /\ UNCHANGED scenarios
         ELSE /\ scenarios' = (scenarios \ hit) \cup
                                { [r EXCEPT !.name = c.newName] : r \in hit }
              /\ call' = [call EXCEPT ![p] = Return(c, Success)]
  /\ UNCHANGED <<projects, outputs, clock, nextId, envVars, started, history, nameVars, localVars>>

-----------------------------------------------------------------------------
(* handleCreateScenario of the project / scenario navigation *)

\* String.prototype.trim over the characters of the model
RECURSIVE trimStart(_)
trimStart(s) ==
  IF s # <<>> /\ IsSpace(Head(s)) THEN trimStart(Tail(s)) ELSE s

RECURSIVE trimEnd(_)
trimEnd(s) ==
  IF s # <<>> /\ IsSpace(s[Len(s)]) THEN trimEnd(SubSeq(s, 1, Len(s) - 1)) ELSE s

trim(s) == trimEnd(trimStart(s))

\* toast.error("Please enter a scenario name"); return
handleCreateScenario_noName(p, projectId, moduleType, scenarioName) ==
  /\ CanStart(p)
  /\ trim(scenarioName) = <<>>
  /\ started' = started + 1
  /\ call' = [call EXCEPT ![p] =
                [Idle EXCEPT !.op = "handleCreateScenario", !.pc = "done",
                             !.user = authUser, !.scope = moduleType,
                             !.target = projectId, !.newName = scenarioName,
                             !.seq = started + 1, !.ui = "handleCreateScenario",
                             !.before = ScenariosOf(projectId, moduleType),
                             !.ret = Failure(<<"Please enter a scenario name">>)]]
  /\ UNCHANGED <<storeVars, envVars, history, nameVars, localVars>>

\* (mutant) the handler inserts a scenario whatever the scope holds
handleCreateScenario_ensure_insert(p, projectId, moduleType, scenarioName) ==
  /\ CanStart(p)
  /\ ~NotAuthenticated(authUser)
  /\ trim(scenarioName) # <<>>
  /\ started' = started + 1
  /\ call' = [call EXCEPT ![p] =
                [Begin(p, "ensureScenario", "es_list", authUser, moduleType, projectId,
                       scenarioName)
                   EXCEPT !.ui = "handleCreateScenario",
                          !.before = ScenariosOf(projectId, moduleType)]]
  /\ UNCHANGED <<storeVars, envVars, history, nameVars, localVars>>

\* const newScenario = await ensureScenario(selectedProject.id, moduleType):
\* the provider's ensureScenario, up to the answer of its first query
handleCreateScenario_ensure(p, projectId, moduleType, scenarioName) ==
  /\ CanStart(p)
  /\ ~NotAuthenticated(authUser)
  /\ trim(scenarioName) # <<>>
  /\ started' = started + 1
  /\ LET rows == ScenariosOf(projectId, moduleType)
         c == [Begin(p, "ensureScenario", "es_list", authUser, moduleType, projectId,
                     scenarioName)
                 EXCEPT !.ui = "handleCreateScenario", !.before = rows]
     IN  IF rows = {}
         THEN call' = [call EXCEPT ![p] = c]
         ELSE \E r \in MostRecent(rows) :
                call' = [call EXCEPT ![p] = Return([c EXCEPT !.found = TRUE], RowRet(r))]
  /\ UNCHANGED <<storeVars, envVars, history, nameVars, localVars>>

\* the handler has its scenario, or null, and has not gone on yet
handleCreateScenario_pending(p) ==
  /\ call[p].ui = "handleCreateScenario"
  /\ call[p].op = "ensureScenario" /\ call[p].pc = "done"

\* if (newScenario) renameScenarioApi(newScenario.id, scenarioName), up to the
\* answer of the pre-check; else toast.error("Failed to create scenario")
handleCreateScenario_rename(p) ==
  /\ handleCreateScenario_pending(p)
  /\ IF call[p].ret.kind = "row"
     THEN \E t \in scenarios :
            /\ t.id = call[p].ret.row.id
            /\ LET id == t.id
                   newName == call[p].newName
                   c == [Trip(call[p]) EXCEPT
                           !.op = "renameScenario", !.pc = "rs_update", !.target = id,
                           !.ret = NoRet,
                           !.taken = ScenarioNameTaken(t.project_id, t.module_type, newName, id),
                           !.own = (t.name = newName)]
               IN  IF renameScenario_existing(t.project_id, t.module_type, newName, id) # {}
                   THEN call' = [call EXCEPT ![p] =
                                   Return(c, Failure(ScenarioExistsMessage(newName)))]
                   ELSE call' = [call EXCEPT ![p] = c]
     ELSE call' = [call EXCEPT ![p] =
                     Return([call[p] EXCEPT !.op = "handleCreateScenario"],
                            Failure(<<"Failed to create scenario">>))]
  /\ UNCHANGED <<storeVars, envVars, started, history, nameVars, localVars>>

-----------------------------------------------------------------------------
(* Table scenario_outputs, createResult, deleteResult *)

\* (mutant) the version follows the result number
OutputRow_versionIsNumber(id, projectId, scenarioId, moduleType, name, resultNumber, now) ==
  [id |-> id, project_id |-> projectId, scenario_id |-> scenarioId,
   module_type |-> moduleType, name |-> name, result_number |-> resultNumber,
   metrics |-> "{}", output_data |-> "payload", version |-> resultNumber,
   created_at |-> now]

OutputRow(id, projectId, scenarioId, moduleType, name, resultNumber, now) ==
  [id |-> id, project_id |-> projectId, scenario_id |-> scenarioId,
   module_type |-> moduleType, name |-> name, result_number |-> resultNumber,
   metrics |-> "{}", output_data |-> "payload", version |-> 1, created_at |-> now]

\* .eq('scenario_id', scenarioId)
OutputsOf(scenarioId) == { r \in outputs : r.scenario_id = scenarioId }

\* (mutant) the constraint on the result number dropped
ResultNumberTaken_dropped(scenarioId, n) == FALSE

\* unique_scenario_result UNIQUE (scenario_id, result_number)
ResultNumberTaken(scenarioId, n) == \E r \in OutputsOf(scenarioId) : r.result_number = n

\* unique_result_name_per_scenario UNIQUE (scenario_id, name)
ResultNameTaken(scenarioId, name, id) ==
  \E r \in OutputsOf(scenarioId) : r.name = name /\ r.id # id

\* the greatest result_number of a set of rows, 0 for none
MaxResultNumber(rows) ==
  IF rows = {} THEN 0
  ELSE CHOOSE n \in { r.result_number : r \in rows } :
         \A r \in rows : r.result_number <= n

\* (mutant) the smallest positive number no result of the scenario has
nextResultNumber_smallestMissing(scenarioId) ==
  firstUnused({ r.result_number : r \in OutputsOf(scenarioId) }, 1)

\* .order('result_number', { ascending: false }).limit(1), then
\* existingResults[0].result_number + 1, or 1
nextResultNumber(scenarioId) ==
  LET rows == OutputsOf(scenarioId)
  IN  IF rows # {} THEN MaxResultNumber(rows) + 1 ELSE 1

\* the query for the highest result_number
createResult_number(p, scenarioId) ==
  /\ started' = started + 1
  /\ \E sc \in scenarios :
       /\ sc.id = scenarioId
       /\ call' = [call EXCEPT ![p] =
                     [Begin(p, "createResult", "cr_list", Me, sc.module_type, scenarioId, <<>>)
                        EXCEPT !.num = nextResultNumber(scenarioId),
                               !.found = OutputsOf(scenarioId) # {}]]
  /\ UNCHANGED <<storeVars, envVars, history, nameVars, localVars>>

\* (mutant) the name is built from the result number
createResult_list_byNumber(p) ==
  /\ call[p].op = "createResult" /\ call[p].pc \in {"cr_list", "cr_retry_list"}
  /\ call' = [call EXCEPT ![p].trips = @ + 1, ![p].name = autoName(Result, call[p].num),
                           ![p].pc = IF call[p].pc = "cr_list" THEN "cr_insert"
                                     ELSE "cr_retry_insert"]
  /\ UNCHANGED <<storeVars, envVars, started, history, nameVars, localVars>>

\* nextAutoName over the names of the scenario's results, base 'Result'; the
\* same listing computes retryName after a conflict
createResult_list(p) ==
  /\ call[p].op = "createResult" /\ call[p].pc \in {"cr_list", "cr_retry_list"}
  /\ LET names == { r.name : r \in OutputsOf(call[p].target) }
     IN  call' = [call EXCEPT ![p].trips = @ + 1, ![p].name = nextAutoName(names, Result),
                              ![p].pc = IF call[p].pc = "cr_list" THEN "cr_insert"
                                        ELSE "cr_retry_insert"]
  /\ UNCHANGED <<storeVars, envVars, started, history, nameVars, localVars>>

\* (mutant) every conflict leads to another attempt
createResult_onConflict_again(pc) == "cr_retry_list"

\* if (createError.code === '23505') { retry once } ; if (retryError) throw retryError
createResult_onConflict(pc) == IF pc = "cr_insert" THEN "cr_retry_list" ELSE "throw"

\* the insert, and the second insert with retryName and the same
\* nextResultNumber; a conflict on the first leads to the retry, a conflict on
\* the second is thrown (caught: return null)
createResult_insert(p) ==
  /\ call[p].op = "createResult" /\ call[p].pc \in {"cr_insert", "cr_retry_insert"}
  /\ LET c == Trip([call[p] EXCEPT !.inserts = @ + 1])
         sc == CHOOSE r \in scenarios : r.id = c.target
         row == OutputRow(nextId, sc.project_id, c.target, c.scope, c.name, c.num, clock)
     IN  IF ResultNameTaken(c.target, c.name, nextId) \/ ResultNumberTaken(c.target, c.num)
         THEN /\ call' = [call EXCEPT ![p] =
                            IF createResult_onConflict(c.pc) = "throw"
                            THEN Return([c EXCEPT !.conflict = TRUE],
                                        createResult_catch(UniqueViolation))
                            ELSE [c EXCEPT !.pc = createResult_onConflict(c.pc),
                                           !.conflict = TRUE]]
              /\ UNCHANGED <<storeVars, history>>
         ELSE /\ outputs' = outputs \cup {row}
              /\ nextId' = nextId + 1
              /\ clock' = clock + 1
              /\ history' = [history EXCEPT ![c.target] =
                               Append(@, [ev |-> "create", num |-> c.num])]
              /\ call' = [call EXCEPT ![p] =
                            Return([c EXCEPT !.created = @ + 1],
                                   RowRet([id |-> row.id, name |-> row.name,
                                           created_at |-> row.created_at]))]
              /\ UNCHANGED <<projects, scenarios>>
  /\ UNCHANGED <<envVars, started, nameVars, localVars>>

\* `A result named '${newName}' already exists in this scenario. ...`
ResultExistsMessage(newName) ==
  <<"A result named '", newName,
    "' already exists in this scenario. Please choose a different name.">>

\* (mutant) every error of the update is thrown
renameResult_onError_thrown(error, newName) == renameResult_catch(error)

\* the update's error: 23505 gives the "already exists" failure, any other
\* error is thrown
renameResult_onError(error, newName) ==
  IF error.code = "23505" THEN Failure(ResultExistsMessage(newName))
  ELSE renameResult_catch(error)

\* (mutant) the pre-check without .eq('scenario_id', scenarioId)
renameResult_existing_anyScenario(scenarioId, newName, id) ==
  LET rows == { r \in outputs : r.name = newName /\ r.id # id }
  IN  IF Cardinality(rows) = 1 THEN rows ELSE {}

\* .select('id').eq('scenario_id', scenarioId).eq('name', newName)
\* .neq('id', id).single()
renameResult_existing(scenarioId, newName, id) ==
  LET rows == { r \in OutputsOf(scenarioId) : r.name = newName /\ r.id # id }
  IN  IF Cardinality(rows) = 1 THEN rows ELSE {}

\* the pre-check and the return of the "already exists" failure; the
\* scenarioId passed is the scenario whose results are listed
renameResult_check(p, id, newName) ==
  /\ CanStart(p)
  /\ started' = started + 1
  /\ \E t \in outputs :
       /\ t.id = id
       /\ LET c == [Begin(p, "renameResult", "rr_update", authUser, t.module_type, id, newName)
                      EXCEPT !.taken = ResultNameTaken(t.scenario_id, newName, id),
                             !.own = (t.name = newName)]
          IN  IF renameResult_existing(t.scenario_id, newName, id) # {}
              THEN call' = [call EXCEPT ![p] =
                              Return([c EXCEPT !.found = TRUE],
                                     Failure(ResultExistsMessage(newName)))]
              ELSE call' = [call EXCEPT ![p] = c]
  /\ UNCHANGED <<storeVars, envVars, history, nameVars, localVars>>

\* .update({ name: newName }).eq('id', id)
renameResult_update(p) ==
  /\ call[p].op = "renameResult" /\ call[p].pc = "rr_update"
  /\ LET c == Trip([call[p] EXCEPT !.updates = @ + 1])
         hit == { r \in outputs : r.id = c.target }
     IN  IF \E r \in hit : ResultNameTaken(r.scenario_id, c.newName, r.id)
         THEN /\ call' = [call EXCEPT ![p] =
                            Return([c EXCEPT !.conflict = TRUE],
                                   renameResult_onError(UniqueViolation, c.newName))]
              /\ UNCHANGED outputs
         ELSE /\ outputs' = (outputs \ hit) \cup
                              { [r EXCEPT !.name = c.newName] : r \in hit }
              /\ call' = [call EXCEPT ![p] = Return(c, Success)]
  /\ UNCHANGED <<projects, scenarios, clock, nextId, envVars, started, history, nameVars, localVars>>

\* .order('created_at', { ascending: false }): the orders the store may
\* return the rows in (rows of equal created_at in any order)
RECURSIVE OrderedByCreatedAtDesc(_)
OrderedByCreatedAtDesc(rows) ==
  IF rows = {} THEN { <<>> }
  ELSE UNION { { <<m>> \o t : t \in OrderedByCreatedAtDesc(rows \ {m}) } :
               m \in { r \in rows : \A q \in rows : q.created_at <= r.created_at } }

\* (mutant) the last index one too far
listResults_to_next(limit, offset) == offset + limit

\* the last index of .range(offset, offset + limit - 1)
listResults_to(limit, offset) == offset + limit - 1

\* .range(from, to): the rows at the 0-based positions from..to
range(s, from, to) ==
  IF from + 1 > Len(s) THEN <<>>
  ELSE SubSeq(s, from + 1, IF to + 1 < Len(s) THEN to + 1 ELSE Len(s))

\* listResults(scenarioId, { limit, offset })
listResults(p, scenarioId, limit, offset) ==
  /\ started' = started + 1
  /\ \E s \in OrderedByCreatedAtDesc(OutputsOf(scenarioId)) :
       call' = [call EXCEPT ![p] =
                  Return([Begin(p, "listResults", "done", authUser, "", scenarioId, <<>>)
                            EXCEPT !.limit = limit, !.offset = offset],
                         ListRet(range(s, offset, listResults_to(limit, offset))))]
  /\ UNCHANGED <<storeVars, envVars, history, nameVars, localVars>>

\* getResult(id): .eq('id', id).single(); no row is an error, thrown and caught
getResult(p, id) ==
  /\ started' = started + 1
  /\ LET c == Begin(p, "getResult", "done", authUser, "", id, <<>>)
         rows == { r \in outputs : r.id = id }
     IN  IF rows = {}
         THEN call' = [call EXCEPT ![p] = Return(c, getResult_catch(StoreFailure))]
         ELSE \E r \in rows :
                call' = [call EXCEPT ![p] = Return([c EXCEPT !.found = TRUE], RowRet(r))]
  /\ UNCHANGED <<storeVars, envVars, history, nameVars, localVars>>

\* the store's delete(id) of a result row
deleteResult(p, id) ==
  /\ started' = started + 1
  /\ \E r \in outputs :
       /\ r.id = id
       /\ outputs' = outputs \ {r}
       /\ history' = [history EXCEPT ![r.scenario_id] =
                        Append(@, [ev |-> "delete", num |-> r.result_number])]
       /\ call' = [call EXCEPT ![p] =
                     Return(Begin(p, "deleteResult", "done", Me, "", id, <<>>), Success)]
  /\ UNCHANGED <<projects, scenarios, clock, nextId, envVars, nameVars, localVars>>

\* loadScenarioOutput: .eq('scenario_id', scenarioId)
\* .order('result_number', { ascending: false }).limit(1).single(): the rows
\* the store may answer with
loadScenarioOutput(scenarioId) ==
  { r \in OutputsOf(scenarioId) :
      \A q \in OutputsOf(scenarioId) : q.result_number <= r.result_number }

\* ScenarioProvider.deleteScenario: .from('scenarios').delete().eq('id', id).
\* The results of the scenario go with it, or, where the schema in force does
\* not cascade, the store refuses to delete a scenario that has results.
deleteScenario(p, id) ==
  /\ started' = started + 1
  /\ \E r \in scenarios :
       /\ r.id = id
       /\ \/ /\ scenarios' = scenarios \ {r}
             /\ outputs' = { o \in outputs : o.scenario_id # id }
          \/ /\ \E o \in outputs : o.scenario_id = id
             /\ UNCHANGED <<scenarios, outputs>>
  /\ call' = [call EXCEPT ![p] =
                Return(Begin(p, "deleteScenario", "done", authUser, "", id, <<>>), NoRet)]
  /\ UNCHANGED <<projects, clock, nextId, envVars, history, nameVars, localVars>>

-----------------------------------------------------------------------------
(* Local result history: utils/resultVersioning.ts over window.localStorage.
   The functions are synchronous: each runs to its end in one step. *)

\* the scenarios a history may be kept for
LocalScenarios == 1..4

\* (mutant) one key for every scenario
LocalKey_shared(scenarioId) == <<"scenario_results_">>

\* `scenario_results_${scenarioId}`
LocalKey(scenarioId) == <<"scenario_results_", scenarioId>>

\* the value of a missing property
Undefined == "undefined"

\* getItem of a key that has no item: null
NoItem == [present |-> FALSE]
Item(text) == [present |-> TRUE, text |-> text]

\* stored text that JSON.parse rejects, and the text of an object without results
NotJSON == [valid |-> FALSE]
NoResultsJSON == [valid |-> TRUE, hasResults |-> FALSE]

\* JSON.stringify of a VersionedResult: the number in decimal, a property
\* whose value is undefined left out
stringifyResult(r) ==
  IF r.data = Undefined
  THEN [resultNumber |-> toDecimal(r.resultNumber), timestamp |-> r.timestamp]
  ELSE [resultNumber |-> toDecimal(r.resultNumber), timestamp |-> r.timestamp,
        data |-> r.data]

\* JSON.stringify(updated), updated: ResultHistory
JSON_stringify(updated) ==
  [valid |-> TRUE, hasResults |-> TRUE, scenarioId |-> updated.scenarioId,
   results |-> [i \in 1..Len(updated.results) |-> stringifyResult(updated.results[i])]]

\* JSON.parse of one stored VersionedResult
parseResult(t) ==
  [resultNumber |-> parseInt(t.resultNumber), timestamp |-> t.timestamp,
   data |-> IF "data" \in DOMAIN t THEN t.data ELSE Undefined]

\* JSON.parse(stored) of a text JSON.parse accepts
JSON_parse(text) ==
  IF text.hasResults
  THEN [hasResults |-> TRUE,
        results |-> [i \in 1..Len(text.results) |-> parseResult(text.results[i])]]
  ELSE [hasResults |-> FALSE]

\* getScenarioResults(scenarioId): [] for no item, for an item that does not
\* parse (catch) and for a parsed object without results (|| [])
getScenarioResults(scenarioId) ==
  LET stored == localStorage[LocalKey(scenarioId)]
  IN  IF ~stored.present THEN <<>>
      ELSE IF ~stored.text.valid THEN <<>>
      ELSE IF ~JSON_parse(stored.text).hasResults THEN <<>>
      ELSE JSON_parse(stored.text).results

\* (mutant) the count of the stored results, without the + 1
addScenarioResult_resultNumber_count(results) == Len(results)

\* const resultNumber = existing.length + 1
addScenarioResult_resultNumber(results) == Len(results) + 1

\* addScenarioResult: the item it stores
addScenarioResult_setItem(scenarioId, resultData, now) ==
  LET results == getScenarioResults(scenarioId)
      newResult == [resultNumber |-> addScenarioResult_resultNumber(results),
                    timestamp |-> now, data |-> resultData]
      updated == [scenarioId |-> scenarioId, results |-> results \o <<newResult>>]
  IN  [localStorage EXCEPT ![LocalKey(scenarioId)] = Item(JSON_stringify(updated))]

\* (mutant) the first stored result
getLatestResult_first(scenarioId) ==
  LET results == getScenarioResults(scenarioId)
  IN  IF Len(results) = 0 THEN NullRet ELSE RowRet(results[1])

\* getLatestResult(scenarioId): null, or results[results.length - 1]
getLatestResult(scenarioId) ==
  LET results == getScenarioResults(scenarioId)
  IN  IF Len(results) = 0 THEN NullRet ELSE RowRet(results[Len(results)])

\* what the session knows of the local history: the last call and its return
\* value, and per scenario what was added since the history was last empty
NoLocalCall == [op |-> "none", scenarioId |-> 0, ret |-> NoRet,
                log |-> [s \in LocalScenarios |-> <<>>]]

\* the record of a call of addScenarioResult
addScenarioResult_return(scenarioId, resultData, now) ==
  [op |-> "addScenarioResult", scenarioId |-> scenarioId,
   ret |-> [kind |-> "number",
            number |-> addScenarioResult_resultNumber(getScenarioResults(scenarioId))],
   log |-> [local.log EXCEPT ![scenarioId] =
              Append(@, [timestamp |-> now, data |-> resultData])]]

\* the local history holds at most MaxLocalResults results of a scenario
MaxLocalResults == 3

\* the payloads and the times of the runs
LocalData == {Undefined, "forecast"}
LocalTimes == {"t1"}

\* a page calls addScenarioResult(scenarioId, resultData)
addScenarioResult(scenarioId, resultData, now) ==
  /\ Len(getScenarioResults(scenarioId)) < MaxLocalResults
  /\ localStorage' = addScenarioResult_setItem(scenarioId, resultData, now)
  /\ local' = addScenarioResult_return(scenarioId, resultData, now)
  /\ UNCHANGED <<storeVars, call, envVars, started, history, nameVars>>

\* a page calls getScenarioResults(scenarioId)
loadResultHistory(scenarioId) ==
  /\ local' = [local EXCEPT !.op = "getScenarioResults", !.scenarioId = scenarioId,
                            !.ret = ListRet(getScenarioResults(scenarioId))]
  /\ UNCHANGED <<storeVars, call, envVars, started, history, nameVars, localStorage>>

\* a page calls getLatestResult(scenarioId)
callGetLatestResult(scenarioId) ==
  /\ local' = [local EXCEPT !.op = "getLatestResult", !.scenarioId = scenarioId,
                            !.ret = getLatestResult(scenarioId)]
  /\ UNCHANGED <<storeVars, call, envVars, started, history, nameVars, localStorage>>

\* clearScenarioResults(scenarioId): localStorage.removeItem(key)
clearScenarioResults(scenarioId) ==
  /\ localStorage' = [localStorage EXCEPT ![LocalKey(scenarioId)] = NoItem]
  /\ local' = [local EXCEPT !.op = "clearScenarioResults", !.scenarioId = scenarioId,
                            !.ret = NoRet, !.log[scenarioId] = <<>>]
  /\ UNCHANGED <<storeVars, call, envVars, started, history, nameVars>>

\* no local history is stored
InitLocal ==
  /\ localStorage = [k \in { LocalKey(s) : s \in LocalScenarios } |-> NoItem]
  /\ local = NoLocalCall

-----------------------------------------------------------------------------
(* Scenario status: runForecasting, saveScenarioOutput *)

\* updateScenario(id, { status }): .update(updates).eq('id', id)
updateScenario(rows, id, status) ==
  { IF r.id = id THEN [r EXCEPT !.status = status] ELSE r : r \in rows }

\* the status of scenario id, "" when there is no such row
StatusOf(id) ==
  IF \E r \in scenarios : r.id = id
  THEN (CHOOSE r \in scenarios : r.id = id).status
  ELSE ""

\* a session is between two operations of the page
Settled(p) == call[p].pc \in {"idle", "returned"}

\* runForecasting, up to its first await: updateScenario(id, { status: 'running' })
runForecasting_running(p, scenarioId) ==
  /\ started' = started + 1
  /\ scenarios' = updateScenario(scenarios, scenarioId, "running")
  /\ call' = [call EXCEPT ![p] =
                [Begin(p, "runForecasting", "rf_finish", authUser, "", scenarioId, <<>>)
                   EXCEPT !.updates = 1, !.statusFrom = StatusOf(scenarioId),
                          !.statusTo = "running"]]
  /\ UNCHANGED <<projects, outputs, clock, nextId, envVars, history, nameVars, localVars>>

\* runForecasting, the rest: 'failed' with fewer than 3 data points,
\* 'completed' after the forecasts are generated and added to the local history
runForecasting_finish(p) ==
  /\ call[p].op = "runForecasting" /\ call[p].pc = "rf_finish"
  /\ \E status \in {"failed", "completed"} :
       /\ scenarios' = updateScenario(scenarios, call[p].target, status)
       /\ call' = [call EXCEPT ![p] =
                     [Trip(call[p]) EXCEPT !.updates = @ + 1, !.pc = "returned",
                                           !.statusFrom = StatusOf(call[p].target),
                                           !.statusTo = status]]
       /\ IF status = "completed"
          THEN \E now \in LocalTimes :
                 /\ localStorage' = addScenarioResult_setItem(call[p].target, "forecast", now)
                 /\ local' = addScenarioResult_return(call[p].target, "forecast", now)
          ELSE UNCHANGED localVars
  /\ UNCHANGED <<projects, outputs, clock, nextId, envVars, started, history, nameVars>>

\* The places where the digits of a match of /Result (\d+)/ can start in
\* name n: the label as written, one space, a digit
saveScenarioOutput_starts(n) ==
  { k \in (Len(Result) + 2)..Len(n) :
      /\ SubSeq(n, k - Len(Result) - 1, k - 1) = Result \o <<" ">>
      /\ IsDigit(n[k]) }

\* match[1]: the digits of the leftmost match, as far as digits go
saveScenarioOutput_digits(n) ==
  LET k == CHOOSE k \in saveScenarioOutput_starts(n) :
             \A j \in saveScenarioOutput_starts(n) : k <= j
      e == CHOOSE e \in k..Len(n) :
             /\ \A j \in k..e : IsDigit(n[j])
             /\ e = Len(n) \/ ~IsDigit(n[e + 1])
  IN  SubSeq(n, k, e)

\* const match = result.name.match(/Result (\d+)/);
\* return match ? parseInt(match[1]) : 1
saveScenarioOutput_number(name) ==
  IF saveScenarioOutput_starts(name) # {}
  THEN parseInt(saveScenarioOutput_digits(name))
  ELSE 1

\* if (!currentScenario) return 1: no scenario is open on the page
saveScenarioOutput_noScenario(p, scenarioId) ==
  /\ started' = started + 1
  /\ call' = [call EXCEPT ![p] =
                [Idle EXCEPT !.op = "saveScenarioOutput", !.pc = "returned",
                             !.user = authUser, !.target = scenarioId,
                             !.seq = started + 1, !.ret = NullRet, !.saved = 1]]
  /\ UNCHANGED <<storeVars, envVars, history, nameVars, localVars>>

\* (mutant) the status is written without looking at the result
saveScenarioOutput_update_always(p) ==
  /\ call[p].op = "createResult" /\ call[p].pc = "done"
  /\ scenarios' = updateScenario(scenarios, call[p].target, "completed")
  /\ call' = [call EXCEPT ![p] =
                [Trip(call[p]) EXCEPT !.updates = @ + 1, !.pc = "returned",
                                      !.statusFrom = StatusOf(call[p].target),
                                      !.statusTo = "completed",
                                      !.saved = IF call[p].ret.kind = "row"
                                                THEN saveScenarioOutput_number(
                                                       call[p].ret.row.name)
                                                ELSE 1]]
  /\ UNCHANGED <<projects, outputs, clock, nextId, envVars, started, history, nameVars, localVars>>

\* saveScenarioOutput after createResult has returned: if (result)
\* updateScenario(scenarioId, { status: 'completed' }) and return the number
\* read from the name; otherwise return 1
saveScenarioOutput_update(p) ==
  /\ call[p].op = "createResult" /\ call[p].pc = "done"
  /\ IF call[p].ret.kind = "row"
     THEN /\ scenarios' = updateScenario(scenarios, call[p].target, "completed")
          /\ call' = [call EXCEPT ![p] =
                        [Trip(call[p]) EXCEPT !.updates = @ + 1, !.pc = "returned",
                                              !.statusFrom = StatusOf(call[p].target),
                                              !.statusTo = "completed",
                                              !.saved = saveScenarioOutput_number(
                                                          call[p].ret.row.name)]]
     ELSE /\ call' = [call EXCEPT ![p].pc = "returned", ![p].saved = 1]
          /\ UNCHANGED scenarios
  /\ UNCHANGED <<projects, outputs, clock, nextId, envVars, started, history, nameVars, localVars>>

-----------------------------------------------------------------------------
(* Store calls that fail with an error other than 23505: data is null, error
   is set, nothing is written *)

\* ensureProject: existing is null and fetchError is set, so the
\* `existing && !fetchError` test fails and the function goes on to create
ensureProject_queryFails(p, toolType) ==
  /\ flaky
  /\ CanStart(p)
  /\ ~NotAuthenticated(authUser)
  /\ started' = started + 1
  /\ call' = [call EXCEPT ![p] =
                [Begin(p, IF variant = "first_found" THEN "ensureProject"
                          ELSE "ensureProjectRecent",
                       IF variant = "first_found" THEN "ep_list" ELSE "epr_list",
                       authUser, toolType, 0, <<>>)
                   EXCEPT !.lookupError = TRUE]]
  /\ UNCHANGED <<storeVars, envVars, history, nameVars, localVars>>

\* ensureProject (both implementations): a failed name listing gives
\* data?.map(...) || [] = [], a failed insert is thrown, a failed re-query
\* gives null and createError is thrown
ensureProject_stepFails(p) ==
  /\ flaky
  /\ call[p].op \in {"ensureProject", "ensureProjectRecent"}
  /\ call[p].pc \notin {"idle", "done"}
  /\ LET c == Trip(call[p])
     IN  call' = [call EXCEPT ![p] =
           CASE c.pc = "ep_list" ->
                  [c EXCEPT !.name = nextAutoName({}, getModulePrefix(c.scope)),
                            !.pc = "ep_insert"]
             [] c.pc \in {"epr_list", "epr_retry_list"} ->
                  [c EXCEPT !.name = nextAutoName({}, Project),
                            !.pc = IF c.pc = "epr_list" THEN "epr_insert"
                                   ELSE "epr_retry_insert"]
             [] c.pc = "ep_insert" ->
                  Return([c EXCEPT !.inserts = @ + 1], ensureProject_catch(StoreFailure))
             [] c.pc = "ep_requery" ->
                  Return(c, ensureProject_catch(UniqueViolation))
             [] OTHER ->
                  Return([c EXCEPT !.inserts = @ + 1], ensureProjectRecent_catch(StoreFailure))]
  /\ UNCHANGED <<storeVars, envVars, started, history, nameVars, localVars>>

\* renameProject: a failed pre-check gives existing = null and the update is
\* issued; a failed update is thrown: 'Failed to rename project'
renameProject_checkFails(p, id, newName) ==
  /\ flaky
  /\ CanStart(p)
  /\ ~NotAuthenticated(authUser)
  /\ \E r \in projects : r.id = id /\ r.user_id = authUser
  /\ started' = started + 1
  /\ call' = [call EXCEPT ![p] =
                [Begin(p, "renameProject", "rp_update", authUser, "", id, newName)
                   EXCEPT !.lookupError = TRUE,
                          !.taken = \E r \in projects :
                                      r.user_id = authUser /\ r.name = newName /\ r.id # id,
                          !.own = \E r \in projects : r.id = id /\ r.name = newName]]
  /\ UNCHANGED <<storeVars, envVars, history, nameVars, localVars>>

renameProject_updateFails(p) ==
  /\ flaky
  /\ call[p].op = "renameProject" /\ call[p].pc = "rp_update"
  /\ call' = [call EXCEPT ![p] =
                Return(Trip([call[p] EXCEPT !.updates = @ + 1]),
                       renameProject_onError(StoreFailure, call[p].newName))]
  /\ UNCHANGED <<storeVars, envVars, started, history, nameVars, localVars>>

\* ensureScenario: as ensureProject, most-recently-updated implementation
ensureScenario_queryFails(p, projectId, moduleType) ==
  /\ flaky
  /\ CanStart(p)
  /\ ~NotAuthenticated(authUser)
  /\ started' = started + 1
  /\ call' = [call EXCEPT ![p] =
                [Begin(p, "ensureScenario", "es_list", authUser, moduleType, projectId, <<>>)
                   EXCEPT !.lookupError = TRUE]]
  /\ UNCHANGED <<storeVars, envVars, history, nameVars, localVars>>

ensureScenario_stepFails(p) ==
  /\ flaky
  /\ call[p].op = "ensureScenario"
  /\ call[p].pc \notin {"idle", "done"}
  /\ LET c == Trip(call[p])
     IN  call' = [call EXCEPT ![p] =
           IF c.pc \in {"es_list", "es_retry_list"}
           THEN [c EXCEPT !.name = nextAutoName({}, Scenario),
                          !.pc = IF c.pc = "es_list" THEN "es_insert" ELSE "es_retry_insert"]
           ELSE Return([c EXCEPT !.inserts = @ + 1], ensureScenario_catch(StoreFailure))]
  /\ UNCHANGED <<storeVars, envVars, started, history, nameVars, localVars>>

\* renameScenario, renameResult: as renameProject
renameScenario_checkFails(p, id, newName) ==
  /\ flaky
  /\ CanStart(p)
  /\ ~NotAuthenticated(authUser)
  /\ started' = started + 1
  /\ \E t \in scenarios :
       /\ t.id = id
       /\ call' = [call EXCEPT ![p] =
                     [Begin(p, "renameScenario", "rs_update", authUser, t.module_type, id, newName)
                        EXCEPT !.lookupError = TRUE,
                               !.taken = ScenarioNameTaken(t.project_id, t.module_type, newName, id),
                               !.own = (t.name = newName)]]
  /\ UNCHANGED <<storeVars, envVars, history, nameVars, localVars>>

renameScenario_updateFails(p) ==
  /\ flaky
  /\ call[p].op = "renameScenario" /\ call[p].pc = "rs_update"
  /\ call' = [call EXCEPT ![p] =
                Return(Trip([call[p] EXCEPT !.updates = @ + 1]),
                       renameScenario_onError(StoreFailure, call[p].newName))]
  /\ UNCHANGED <<storeVars, envVars, started, history, nameVars, localVars>>

renameResult_checkFails(p, id, newName) ==
  /\ flaky
  /\ CanStart(p)
  /\ started' = started + 1
  /\ \E t \in outputs :
       /\ t.id = id
       /\ call' = [call EXCEPT ![p] =
                     [Begin(p, "renameResult", "rr_update", authUser, t.module_type, id, newName)
                        EXCEPT !.lookupError = TRUE,
                               !.taken = ResultNameTaken(t.scenario_id, newName, id),
                               !.own = (t.name = newName)]]
  /\ UNCHANGED <<storeVars, envVars, history, nameVars, localVars>>

renameResult_updateFails(p) ==
  /\ flaky
  /\ call[p].op = "renameResult" /\ call[p].pc = "rr_update"
  /\ call' = [call EXCEPT ![p] =
                Return(Trip([call[p] EXCEPT !.updates = @ + 1]),
                       renameResult_onError(StoreFailure, call[p].newName))]
  /\ UNCHANGED <<storeVars, envVars, started, history, nameVars, localVars>>

\* createResult: a failed query for the highest number gives
\* existingResults = null and nextResultNumber = 1; a failed name listing
\* gives []; a failed insert is thrown
createResult_numberFails(p, scenarioId) ==
  /\ flaky
  /\ started' = started + 1
  /\ \E sc \in scenarios :
       /\ sc.id = scenarioId
       /\ call' = [call EXCEPT ![p] =
                     [Begin(p, "createResult", "cr_list", authUser, sc.module_type,
                            scenarioId, <<>>)
                        EXCEPT !.num = 1, !.lookupError = TRUE]]
  /\ UNCHANGED <<storeVars, envVars, history, nameVars, localVars>>

createResult_stepFails(p) ==
  /\ flaky
  /\ call[p].op = "createResult"
  /\ call[p].pc \notin {"idle", "done"}
  /\ LET c == Trip(call[p])
     IN  call' = [call EXCEPT ![p] =
           IF c.pc \in {"cr_list", "cr_retry_list"}
           THEN [c EXCEPT !.name = nextAutoName({}, Result),
                          !.pc = IF c.pc = "cr_list" THEN "cr_insert" ELSE "cr_retry_insert"]
           ELSE Return([c EXCEPT !.inserts = @ + 1], createResult_catch(StoreFailure))]
  /\ UNCHANGED <<storeVars, envVars, started, history, nameVars, localVars>>

\* listResults, getResult: if (error) throw error, caught
listResults_fails(p, scenarioId, limit, offset) ==
  /\ flaky
  /\ started' = started + 1
  /\ call' = [call EXCEPT ![p] =
                Return([Begin(p, "listResults", "done", authUser, "", scenarioId, <<>>)
                          EXCEPT !.limit = limit, !.offset = offset, !.lookupError = TRUE],
                       listResults_catch(StoreFailure))]
  /\ UNCHANGED <<storeVars, envVars, history, nameVars, localVars>>

getResult_fails(p, id) ==
  /\ flaky
  /\ started' = started + 1
  /\ call' = [call EXCEPT ![p] =
                Return([Begin(p, "getResult", "done", authUser, "", id, <<>>)
                          EXCEPT !.lookupError = TRUE],
                       getResult_catch(StoreFailure))]
  /\ UNCHANGED <<storeVars, envVars, history, nameVars, localVars>>

-----------------------------------------------------------------------------
(* Specification: the project operations, two clients *)

NoCalls == [p \in Clients |-> Idle]

InitName == existing = {} /\ base = <<>> /\ out = <<>>

\* another user's project is in the store; this user has none
InitProjects ==
  /\ projects = {ProjectRow(1, Other, GFA \o <<" ","1">>, "gfa", 1)}
  /\ scenarios = {}
  /\ outputs = {}
  /\ clock = 2
  /\ nextId = 2
  /\ call = NoCalls
  /\ variant \in {"first_found", "most_recent"}
  /\ authUser = Me
  /\ flaky = FALSE
  /\ started = 0
  /\ history = <<>>
  /\ InitName
  /\ InitLocal

ProjectStep(p) ==
  \/ ensureProject_list(p)
  \/ ensureProject_insert(p)
  \/ ensureProject_requery(p)
  \/ ensureProjectRecent_list(p)
  \/ ensureProjectRecent_insert(p)
  \/ renameProject_update(p)

ProjectStart(p) ==
  \/ \E t \in UsedToolTypes : ensureProject_query(p, t)
  \/ \E t \in UsedToolTypes : ensureProjectRecent_query(p, t)
  \/ \E t \in UsedToolTypes, n \in TypedProjectNames : createProject(p, n, t)
  \/ \E r \in projects, n \in TypedProjectNames : renameProject_check(p, r.id, n)

NextProjects == \E p \in Clients : ProjectStart(p) \/ ProjectStep(p)

SpecProjects == InitProjects /\ [][NextProjects]_vars

\* no concurrent writer: a call starts only when no other call is in progress
NoCallInProgress == \A q \in Clients : Free(q)

NextProjectsSeq == \E p \in Clients : (NoCallInProgress /\ ProjectStart(p)) \/ ProjectStep(p)

SpecProjectsSeq == InitProjects /\ [][NextProjectsSeq]_vars

-----------------------------------------------------------------------------
(* Specification: the scenario operations of one project, two clients *)

TypedScenarioNames == {Scenario \o <<" ","1">>, Scenario \o <<" ","2">>, Plan}

\* this user's project exists and has no scenario yet
InitScenarios ==
  /\ projects = {ProjectRow(1, Me, GFA \o <<" ","1">>, "gfa", 1)}
  /\ scenarios = {}
  /\ outputs = {}
  /\ clock = 2
  /\ nextId = 2
  /\ call = NoCalls
  /\ variant = "first_found"
  /\ authUser = Me
  /\ flaky = FALSE
  /\ started = 0
  /\ history = <<>>
  /\ InitName
  /\ InitLocal

ScenarioStep(p) ==
  \/ ensureScenario_list(p)
  \/ ensureScenario_insert(p)
  \/ renameScenario_update(p)

ScenarioStart(p) ==
  \/ \E r \in projects, m \in UsedToolTypes : ensureScenario_query(p, r.id, m)
  \/ \E r \in scenarios, n \in TypedScenarioNames : renameScenario_check(p, r.id, n)

NextScenarios == \E p \in Clients : ScenarioStart(p) \/ ScenarioStep(p)

SpecScenarios == InitScenarios /\ [][NextScenarios]_vars

-----------------------------------------------------------------------------
(* Specification: the results of two scenarios *)

\* this user's project and its two scenarios exist; no result yet
InitResults ==
  /\ projects = {ProjectRow(1, Me, GFA \o <<" ","1">>, "gfa", 1)}
  /\ scenarios = {ScenarioRow(2, 1, Me, "gfa", Scenario \o <<" ","1">>, 2),
                  ScenarioRow(3, 1, Me, "forecasting", Scenario \o <<" ","1">>, 3)}
  /\ outputs = {}
  /\ clock = 4
  /\ nextId = 4
  /\ call = NoCalls
  /\ variant = "first_found"
  /\ authUser = Me
  /\ flaky = FALSE
  /\ started = 0
  /\ history = [s \in {2, 3} |-> <<>>]
  /\ InitName
  /\ InitLocal

ResultStep(p) ==
  \/ createResult_list(p)
  \/ createResult_insert(p)

ResultStart(p) ==
  \/ \E sc \in scenarios : createResult_number(p, sc.id)
  \/ \E r \in outputs : deleteResult(p, r.id)

\* two clients, any interleaving
NextResults == \E p \in Clients : (CanStart(p) /\ ResultStart(p)) \/ ResultStep(p)

SpecResults == InitResults /\ [][NextResults]_vars

\* no concurrent writer: one call at a time, up to MaxSeqCalls calls
MaxSeqCalls == 5

NextResultsSeq ==
  \E p \in Clients :
    \/ NoCallInProgress /\ started < MaxSeqCalls /\ ResultStart(p)
    \/ ResultStep(p)

SpecResultsSeq == InitResults /\ [][NextResultsSeq]_vars

-----------------------------------------------------------------------------
(* Specification: all operations on a store that holds two projects, two
   scenarios and two results of the user; the sessions are signed in or not,
   and the store is reliable or not *)

StoreToolTypes == {"gfa", "network"}
RenamedProjectNames == {Plan, GFA \o <<" ","1">>}
RenamedScenarioNames == {Plan, Scenario \o <<" ","1">>}
RenamedResultNames == {Plan, Result \o <<" ","1">>}

\* page sizes of listResults
PageSizes == {1, 2}

\* the rows the store holds
StoreRows ==
  /\ projects = {ProjectRow(1, Me, GFA \o <<" ","1">>, "gfa", 1),
                 ProjectRow(2, Me, DF \o <<" ","1">>, "forecasting", 2)}
  /\ scenarios = {ScenarioRow(3, 1, Me, "gfa", Scenario \o <<" ","1">>, 3),
                  ScenarioRow(4, 1, Me, "gfa", Scenario \o <<" ","2">>, 4)}
  /\ outputs = {OutputRow(5, 1, 3, "gfa", Result \o <<" ","1">>, 1, 5),
                OutputRow(6, 1, 3, "gfa", Result \o <<" ","2">>, 2, 6)}
  /\ clock = 7
  /\ nextId = 7
  /\ history = [s \in {3, 4} |-> <<>>]

\* a reliable store; the sessions are signed in, or not
InitStore ==
  /\ StoreRows
  /\ call = NoCalls
  /\ variant \in {"first_found", "most_recent"}
  /\ authUser \in {Me, NoUser}
  /\ flaky = FALSE
  /\ started = 0
  /\ InitName
  /\ InitLocal

StoreStep(p) ==
  \/ ensureProject_list(p)
  \/ ensureProject_insert(p)
  \/ ensureProject_requery(p)
  \/ ensureProjectRecent_list(p)
  \/ ensureProjectRecent_insert(p)
  \/ renameProject_update(p)
  \/ ensureScenario_list(p)
  \/ ensureScenario_insert(p)
  \/ renameScenario_update(p)
  \/ createResult_list(p)
  \/ createResult_insert(p)
  \/ renameResult_update(p)

StoreStart(p) ==
  \/ \E t \in StoreToolTypes :
       \/ ensureProject_query(p, t)
       \/ ensureProjectRecent_query(p, t)
       \/ ensureProject_noUser(p, t)
  \/ \E r \in projects, n \in RenamedProjectNames :
       \/ renameProject_check(p, r.id, n)
       \/ renameProject_noUser(p, r.id, n)
  \/ \E r \in projects :
       \/ ensureScenario_query(p, r.id, r.tool_type)
       \/ ensureScenario_noUser(p, r.id, r.tool_type)
  \/ \E r \in scenarios, n \in RenamedScenarioNames :
       \/ renameScenario_check(p, r.id, n)
       \/ renameScenario_noUser(p, r.id, n)
  \/ \E s \in DOMAIN history :
       \/ createResult_number(p, s)
       \/ \E l \in PageSizes, k \in 0..1 : listResults(p, s, l, k * l)
  \/ \E r \in outputs, n \in RenamedResultNames : renameResult_check(p, r.id, n)
  \/ \E r \in outputs : getResult(p, r.id)

\* at most MaxStoreCalls calls are made
MaxStoreCalls == 2

NextStore ==
  \E p \in Clients : (CanStart(p) /\ started < MaxStoreCalls /\ StoreStart(p)) \/ StoreStep(p)

SpecStore == InitStore /\ [][NextStore]_vars

-----------------------------------------------------------------------------
(* Specification: one call of any of the same operations on a store whose
   calls may fail *)

InitFlaky ==
  /\ StoreRows
  /\ call = NoCalls
  /\ variant \in {"first_found", "most_recent"}
  /\ authUser \in {Me, NoUser}
  /\ flaky = TRUE
  /\ started = 0
  /\ InitName
  /\ InitLocal

FlakyStep(p) ==
  \/ StoreStep(p)
  \/ ensureProject_stepFails(p)
  \/ renameProject_updateFails(p)
  \/ ensureScenario_stepFails(p)
  \/ renameScenario_updateFails(p)
  \/ createResult_stepFails(p)
  \/ renameResult_updateFails(p)

FlakyStart(p) ==
  \/ StoreStart(p)
  \/ \E t \in StoreToolTypes : ensureProject_queryFails(p, t)
  \/ \E r \in projects, n \in RenamedProjectNames : renameProject_checkFails(p, r.id, n)
  \/ \E r \in projects : ensureScenario_queryFails(p, r.id, r.tool_type)
  \/ \E r \in scenarios, n \in RenamedScenarioNames : renameScenario_checkFails(p, r.id, n)
  \/ \E s \in DOMAIN history :
       \/ createResult_numberFails(p, s)
       \/ \E l \in PageSizes, k \in 0..1 : listResults_fails(p, s, l, k * l)
  \/ \E r \in outputs, n \in RenamedResultNames : renameResult_checkFails(p, r.id, n)
  \/ \E r \in outputs : getResult_fails(p, r.id)

\* one call is made, by either session, and runs to its end
NextFlaky ==
  \E p \in Clients : (CanStart(p) /\ started = 0 /\ FlakyStart(p)) \/ FlakyStep(p)

\* a call that has started goes on: every store call returns
FairFlaky == \A p \in Clients : WF_vars(FlakyStep(p))

SpecFlaky == InitFlaky /\ [][NextFlaky]_vars /\ FairFlaky

-----------------------------------------------------------------------------
(* Specification: runs that write a scenario's status *)

StatusStep(p) ==
  \/ runForecasting_finish(p)
  \/ createResult_list(p)
  \/ createResult_insert(p)
  \/ saveScenarioOutput_update(p)

StatusStart(p) ==
  \E sc \in scenarios :
    \/ sc.module_type = "forecasting" /\ runForecasting_running(p, sc.id)
    \/ createResult_number(p, sc.id)

NextStatus ==
  \E p \in Clients :
    \/ Settled(p) /\ started < MaxCalls /\ StatusStart(p)
    \/ StatusStep(p)

SpecStatus == InitResults /\ [][NextStatus]_vars

-----------------------------------------------------------------------------
(* Specification: pages of the results of a scenario, one call at a time *)

\* scenario 2 has four results, scenario 3 has one
InitListing ==
  /\ projects = {ProjectRow(1, Me, GFA \o <<" ","1">>, "gfa", 1)}
  /\ scenarios = {ScenarioRow(2, 1, Me, "gfa", Scenario \o <<" ","1">>, 2),
                  ScenarioRow(3, 1, Me, "forecasting", Scenario \o <<" ","1">>, 3)}
  /\ outputs = { OutputRow(3 + k, 1, 2, "gfa", autoName(Result, k), k, 3 + k) : k \in 1..4 }
                 \cup {OutputRow(8, 1, 3, "forecasting", autoName(Result, 1), 1, 8)}
  /\ clock = 9
  /\ nextId = 9
  /\ call = NoCalls
  /\ variant = "first_found"
  /\ authUser = Me
  /\ flaky = FALSE
  /\ started = 0
  /\ history = [s \in {2, 3} |-> <<>>]
  /\ InitName
  /\ InitLocal

ListingStart(p) ==
  \/ \E sc \in scenarios, l \in PageSizes, k \in 0..2 : listResults(p, sc.id, l, k * l)
  \/ \E sc \in scenarios : createResult_number(p, sc.id)
  \/ \E r \in outputs : deleteResult(p, r.id)
  \/ \E r \in outputs : getResult(p, r.id)

\* at most MaxListingCalls calls are made
MaxListingCalls == 3

NextListing ==
  \E p \in Clients :
    \/ NoCallInProgress /\ started < MaxListingCalls /\ ListingStart(p)
    \/ ResultStep(p)

SpecListing == InitListing /\ [][NextListing]_vars

-----------------------------------------------------------------------------
(* Specification: results of two scenarios are created, deleted and renamed,
   one call at a time *)

\* the names a result is renamed to: a free name, an auto-name, an auto-name
\* in lower case
ResultNewNames == {Plan, Result \o <<" ","1">>, FoldAll(Result) \o <<" ","1">>}

ResultNamesStart(p) ==
  \/ \E sc \in scenarios : createResult_number(p, sc.id)
  \/ \E r \in outputs : deleteResult(p, r.id)
  \/ \E r \in outputs, n \in ResultNewNames : renameResult_check(p, r.id, n)

\* at most MaxNameCalls calls are made
MaxNameCalls == 2

NextResultNames ==
  \E p \in Clients :
    \/ NoCallInProgress /\ started < MaxNameCalls /\ ResultNamesStart(p)
    \/ ResultStep(p)
    \/ renameResult_update(p)

SpecResultNames == InitListing /\ [][NextResultNames]_vars

-----------------------------------------------------------------------------
(* Specification: the first-found ensureProject for every tool type, next to
   createProject, by two sessions *)

InitPrefixes == InitProjects /\ variant = "first_found"

PrefixStart(p) ==
  \/ \E t \in ToolType : ensureProject_query(p, t)
  \/ \E t \in UsedToolTypes, n \in TypedProjectNames : createProject(p, n, t)

\* at most MaxPrefixCalls calls are made
MaxPrefixCalls == 2

NextPrefixes ==
  \E p \in Clients :
    \/ started < MaxPrefixCalls /\ PrefixStart(p)
    \/ ensureProject_list(p)
    \/ ensureProject_insert(p)
    \/ ensureProject_requery(p)

SpecPrefixes == InitPrefixes /\ [][NextPrefixes]_vars

-----------------------------------------------------------------------------
(* Specification: saveScenarioOutput next to deletions and renames of
   results, two sessions; scenario 2 has four results, scenario 3 has one *)

SaveStart(p) ==
  \/ \E sc \in scenarios :
       \/ createResult_number(p, sc.id)
       \/ saveScenarioOutput_noScenario(p, sc.id)
  \/ \E r \in outputs : deleteResult(p, r.id)
  \/ \E r \in outputs, n \in RenamedResultNames : renameResult_check(p, r.id, n)

SaveStep(p) ==
  \/ createResult_list(p)
  \/ createResult_insert(p)
  \/ saveScenarioOutput_update(p)
  \/ renameResult_update(p)

\* a session is not inside an operation
Ready(p) == call[p].pc \in {"idle", "returned"} \/ (call[p].pc = "done" /\ call[p].op # "createResult")

\* at most MaxSaveCalls operations are started
MaxSaveCalls == 2

NextSave ==
  \E p \in Clients :
    \/ Ready(p) /\ started < MaxSaveCalls /\ SaveStart(p)
    \/ SaveStep(p)

SpecSave == InitListing /\ [][NextSave]_vars

-----------------------------------------------------------------------------
(* Specification: renames next to the deletion of scenarios, two sessions *)

InitRenames ==
  /\ StoreRows
  /\ call = NoCalls
  /\ variant = "most_recent"
  /\ authUser = Me
  /\ flaky = FALSE
  /\ started = 0
  /\ InitName
  /\ InitLocal

RenamesStart(p) ==
  \/ \E r \in projects, n \in RenamedProjectNames : renameProject_check(p, r.id, n)
  \/ \E r \in scenarios, n \in RenamedScenarioNames : renameScenario_check(p, r.id, n)
  \/ \E r \in outputs, n \in RenamedResultNames : renameResult_check(p, r.id, n)
  \/ \E r \in scenarios : Free(p) /\ deleteScenario(p, r.id)

RenamesStep(p) ==
  \/ renameProject_update(p)
  \/ renameScenario_update(p)
  \/ renameResult_update(p)

\* at most MaxRenameCalls operations are started
MaxRenameCalls == 2

NextRenames ==
  \E p \in Clients : (started < MaxRenameCalls /\ RenamesStart(p)) \/ RenamesStep(p)

SpecRenames == InitRenames /\ [][NextRenames]_vars

-----------------------------------------------------------------------------
(* Specification: creations and deletions of the results of one scenario,
   two sessions; the scenario has one result *)

\* the scenario worked on
OrderScenarios == {3}

OrderStart(p) ==
  \E s \in OrderScenarios :
    \/ createResult_number(p, s)
    \/ \E r \in OutputsOf(s) : deleteResult(p, r.id)

\* at most MaxOrderCalls operations are started
MaxOrderCalls == 4

NextOrder ==
  \E p \in Clients :
    \/ Free(p) /\ started < MaxOrderCalls /\ OrderStart(p)
    \/ ResultStep(p)

SpecOrder == InitListing /\ [][NextOrder]_vars

-----------------------------------------------------------------------------
(* Specification: results are only created, by two sessions; no result is
   deleted or renamed *)

CreateOnlyStart(p) == \E sc \in scenarios : createResult_number(p, sc.id)

NextCreateOnly == \E p \in Clients : (CanStart(p) /\ CreateOnlyStart(p)) \/ ResultStep(p)

SpecCreateOnly == InitResults /\ [][NextCreateOnly]_vars

-----------------------------------------------------------------------------
(* Specification: the create-scenario dialog of two sessions; project 1 has
   two scenarios of its module, project 2 has none *)

\* what the user leaves in the name field
CreateScenarioNames == TypedScenarioNames \cup {<<" ">>}

InitCreateScenario ==
  /\ StoreRows
  /\ call = NoCalls
  /\ variant = "most_recent"
  /\ authUser = Me
  /\ flaky = FALSE
  /\ started = 0
  /\ InitName
  /\ InitLocal

CreateScenarioStart(p) ==
  \E r \in projects, n \in CreateScenarioNames :
    \/ handleCreateScenario_ensure(p, r.id, r.tool_type, n)
    \/ handleCreateScenario_noName(p, r.id, r.tool_type, n)

CreateScenarioStep(p) ==
  \/ ensureScenario_list(p)
  \/ ensureScenario_insert(p)
  \/ handleCreateScenario_rename(p)
  \/ renameScenario_update(p)

\* at most MaxCreateCalls dialogs are submitted
MaxCreateCalls == 2

NextCreateScenario ==
  \E p \in Clients :
    \/ /\ ~handleCreateScenario_pending(p)
       /\ started < MaxCreateCalls
       /\ CreateScenarioStart(p)
    \/ CreateScenarioStep(p)

SpecCreateScenario == InitCreateScenario /\ [][NextCreateScenario]_vars

-----------------------------------------------------------------------------
(* Specification: the operations that insert rows, next to renameResult, by
   two sessions; the store holds a project, a scenario and a renamed result *)

InitDefaults ==
  /\ projects = {ProjectRow(1, Me, GFA \o <<" ","1">>, "gfa", 1)}
  /\ scenarios = {ScenarioRow(2, 1, Me, "gfa", Scenario \o <<" ","1">>, 2)}
  /\ outputs = {OutputRow(3, 1, 2, "gfa", Plan, 1, 3)}
  /\ clock = 4
  /\ nextId = 4
  /\ call = NoCalls
  /\ variant \in {"first_found", "most_recent"}
  /\ authUser = Me
  /\ flaky = FALSE
  /\ started = 0
  /\ history = [s \in {2} |-> <<>>]
  /\ InitName
  /\ InitLocal

DefaultsStart(p) ==
  \/ \E t \in StoreToolTypes :
       ensureProject_query(p, t) \/ ensureProjectRecent_query(p, t)
  \/ \E r \in projects, m \in UsedToolTypes : ensureScenario_query(p, r.id, m)
  \/ \E sc \in scenarios : createResult_number(p, sc.id)
  \/ \E r \in outputs, n \in RenamedResultNames : renameResult_check(p, r.id, n)

DefaultsStep(p) ==
  \/ ensureProject_list(p)
  \/ ensureProject_insert(p)
  \/ ensureProject_requery(p)
  \/ ensureProjectRecent_list(p)
  \/ ensureProjectRecent_insert(p)
  \/ ensureScenario_list(p)
  \/ ensureScenario_insert(p)
  \/ createResult_list(p)
  \/ createResult_insert(p)
  \/ renameResult_update(p)

\* at most MaxDefaultsCalls calls are made
MaxDefaultsCalls == 2

NextDefaults ==
  \E p \in Clients : (started < MaxDefaultsCalls /\ DefaultsStart(p)) \/ DefaultsStep(p)

SpecDefaults == InitDefaults /\ [][NextDefaults]_vars

-----------------------------------------------------------------------------
(* Specification: the local result history of two scenarios; an item may
   already be stored under a key, one that holds no results *)

HistoryScenarios == {1, 2}

InitHistory ==
  /\ projects = {} /\ scenarios = {} /\ outputs = {}
  /\ clock = 1 /\ nextId = 1
  /\ call = NoCalls
  /\ variant = "first_found"
  /\ authUser = Me
  /\ flaky = FALSE
  /\ started = 0
  /\ history = <<>>
  /\ InitName
  /\ localStorage \in [{ LocalKey(s) : s \in LocalScenarios } ->
                         {NoItem, Item(NotJSON), Item(NoResultsJSON)}]
  /\ \A s \in LocalScenarios \ HistoryScenarios : localStorage[LocalKey(s)] = NoItem
  /\ local = NoLocalCall

NextHistory ==
  \E s \in HistoryScenarios :
    \/ \E d \in LocalData, now \in LocalTimes : addScenarioResult(s, d, now)
    \/ loadResultHistory(s)
    \/ callGetLatestResult(s)
    \/ clearScenarioResults(s)

SpecHistory == InitHistory /\ [][NextHistory]_vars

-----------------------------------------------------------------------------
(* Specification: nextAutoName applied to sets of names *)

\* the decimal numerals, written out
Numeral == << <<"1">>, <<"2">>, <<"3">>, <<"4">>, <<"5">>, <<"6">>, <<"7">>,
              <<"8">>, <<"9">>, <<"1","0">>, <<"1","1">>, <<"1","2">>,
              <<"1","3">>, <<"1","4">>, <<"1","5">>, <<"1","6">>, <<"1","7">>,
              <<"1","8">>, <<"1","9">>, <<"2","0">> >>

\* "{b} k"
Numbered(b, k) == b \o <<" ">> \o Numeral[k]

\* the labels nextAutoName is called with
Bases == {Scenario, Result, GFA}

\* Names that are not "{b} <digits>": another prefix, the bare label, the
\* label followed by a non-digit, by a digit with no space, by digits and more,
\* and the label inside a longer name.
OtherPrefix == <<"F","o","o"," ","1">>
NonMatchingNames(b) ==
  { OtherPrefix, b, b \o <<" ","x">>, b \o <<"1">>, b \o <<" ","1","x">>,
    <<"M","y"," ">> \o b \o <<" ","1">> }

\* Names that match with another spelling: the label in lower case, two
\* spaces, a leading zero.
RespelledNames(b) ==
  { FoldAll(b) \o <<" ","1">>, b \o <<" "," ","2">>, b \o <<" ","0","3">> }

\* the existing "{b} k" names: 1..MaxRun at most in a row, and any of the
\* MaxGap numbers after the first missing one
MaxRun == 10
MaxGap == 2

\* the other names in the listing, MaxOthers at most
MaxOthers == 2
OtherNames(b) == NonMatchingNames(b) \cup RespelledNames(b)

InitNames ==
  /\ projects = {} /\ scenarios = {} /\ outputs = {}
  /\ clock = 1 /\ nextId = 1
  /\ call = NoCalls
  /\ variant = "first_found"
  /\ authUser = Me
  /\ flaky = FALSE
  /\ started = 0
  /\ history = <<>>
  /\ base \in Bases
  /\ \E run \in 0..MaxRun, gaps \in SUBSET (1..MaxGap) :
       existing = { Numbered(base, k) : k \in (1..run) \cup { run + 1 + g : g \in gaps } }
  /\ out = <<>>
  /\ InitLocal

\* const name = await nextAutoName(listExisting, base)
callNextAutoName ==
  /\ out = <<>>
  /\ out' = nextAutoName(existing, base)
  /\ UNCHANGED <<storeVars, call, envVars, started, history, localVars, existing, base>>

\* a name that is not "{b} k" appears in the listing, and the name is computed again
addName ==
  /\ out # <<>>
  /\ Cardinality(existing \cap OtherNames(base)) < MaxOthers
  /\ \E n \in OtherNames(base) \ existing :
       /\ existing' = existing \cup {n}
       /\ out' = nextAutoName(existing', base)
  /\ UNCHANGED <<storeVars, call, envVars, started, history, localVars, base>>

\* such a name leaves the listing, and the name is computed again
removeName ==
  /\ out # <<>>
  /\ \E n \in existing \cap OtherNames(base) :
       /\ existing' = existing \ {n}
       /\ out' = nextAutoName(existing', base)
  /\ UNCHANGED <<storeVars, call, envVars, started, history, localVars, base>>

NextNames == callNextAutoName \/ addName \/ removeName

SpecNames == InitNames /\ [][NextNames]_vars

-----------------------------------------------------------------------------
(* Properties of nextAutoName (SpecNames) *)

\* the numbers k whose name "{base} k" is in the listing
ListedNumbers == { k \in 1..Len(Numeral) : Numbered(base, k) \in existing }

\* C7: when the listing is exactly the names "{base} k" for k in a set S,
\* nextAutoName returns "{base} m" for the smallest positive m not in S.
C7_SmallestMissing ==
  (out # <<>> /\ existing = { Numbered(base, k) : k \in ListedNumbers })
    => \E m \in 1..Len(Numeral) :
         /\ m \notin ListedNumbers
         /\ \A j \in 1..(m - 1) : j \in ListedNumbers
         /\ out = Numbered(base, m)

\* C7 witness: {"Result 1", "Result 3"} gives "Result 2"
C7_Witness ==
  /\ base = Result
  /\ existing = {Numbered(Result, 1), Numbered(Result, 3)}
  /\ out = <<"R","e","s","u","l","t"," ","2">>

\* C8: a name that is not "{base} <digits>" entering or leaving the listing
\* never changes the returned name, and the empty listing gives "{base} 1".
C8_IgnoresNonMatching ==
  /\ [](existing = {} /\ out # <<>> => out = Numbered(base, 1))
  /\ [][(/\ out # <<>>
         /\ existing' # existing
         /\ (existing' \ existing) \cup (existing \ existing') \subseteq NonMatchingNames(base))
        => out' = out]_vars

\* C8 witness: {"Foo 1", "Result"} with base "Result" gives "Result 1"
C8_Witness ==
  /\ base = Result
  /\ existing = {OtherPrefix, Result}
  /\ out = <<"R","e","s","u","l","t"," ","1">>

-----------------------------------------------------------------------------
(* Properties of ensureProject and renameProject *)

SameRow(r1, r2) == r1.kind = "row" /\ r2.kind = "row" /\ r1.row.id = r2.row.id

\* C2 (SpecProjects): the only two calls so far are concurrent first-found
\* ensureProject calls of one tool type that both found no project; when both
\* have returned, the user has at most one project of that tool type and both
\* calls returned it.
C2_NoDuplicateProject ==
  \A p, q \in Clients :
    (/\ p # q
     /\ started = 2
     /\ call[p].op = "ensureProject" /\ call[q].op = "ensureProject"
     /\ call[p].scope = call[q].scope
     /\ ~call[p].found /\ ~call[q].found
     /\ call[p].pc = "done" /\ call[q].pc = "done")
    => /\ Cardinality(ProjectsOf(Me, call[p].scope)) <= 1
       /\ SameRow(call[p].ret, call[q].ret)

EnsureProjectOps == {"ensureProject", "ensureProjectRecent"}

\* C3 (SpecProjectsSeq): of two ensureProject calls for one tool type made one
\* after the other with no call between them, both return the same project
\* and the second inserts no row.
C3_EnsureProjectIdempotent ==
  \A p, q \in Clients :
    (/\ call[p].op \in EnsureProjectOps /\ call[q].op = call[p].op
     /\ call[p].scope = call[q].scope
     /\ call[q].seq = call[p].seq + 1
     /\ call[p].pc = "done" /\ call[q].pc = "done")
    => /\ SameRow(call[p].ret, call[q].ret)
       /\ call[q].created = 0

\* C9 (SpecProjects): a renameProject whose new name is, when the call is
\* made, the name of another project of the same user has returned the
\* "already exists" failure that names newName, and has issued no update.
C9_RenameToTakenNameFails ==
  \A p \in Clients :
    (call[p].op = "renameProject" /\ call[p].taken)
    => /\ call[p].pc = "done"
       /\ call[p].ret = Failure(ProjectExistsMessage(call[p].newName))
       /\ call[p].updates = 0

\* C9 witness: such a call has returned, and the other project still has the name
C9_Witness ==
  \E p \in Clients :
    /\ call[p].op = "renameProject" /\ call[p].taken /\ call[p].pc = "done"
    /\ \E r \in projects :
         r.user_id = Me /\ r.id # call[p].target /\ r.name = call[p].newName

\* C10 (SpecProjectsSeq): with one call at a time, a renameProject to the
\* project's own current name returns success.
C10_RenameToOwnNameSucceeds ==
  \A p \in Clients :
    (call[p].op = "renameProject" /\ call[p].own /\ call[p].pc = "done")
    => call[p].ret = Success

\* C10 witness: such a call has returned, and the project has the name
C10_Witness ==
  \E p \in Clients :
    /\ call[p].op = "renameProject" /\ call[p].own /\ call[p].pc = "done"
    /\ call[p].updates = 1
    /\ \E r \in projects : r.id = call[p].target /\ r.name = call[p].newName

-----------------------------------------------------------------------------
(* Properties of ensureScenario *)

\* C1 (SpecScenarios): the only two calls so far are concurrent ensureScenario
\* calls for one (project, module_type) that both found no scenario; when both
\* have returned, exactly one scenario of that scope exists and both calls
\* returned it.
C1_OneScenarioForTwoCallers ==
  \A p, q \in Clients :
    (/\ p # q
     /\ started = 2
     /\ call[p].op = "ensureScenario" /\ call[q].op = "ensureScenario"
     /\ call[p].target = call[q].target /\ call[p].scope = call[q].scope
     /\ ~call[p].found /\ ~call[q].found
     /\ call[p].pc = "done" /\ call[q].pc = "done")
    => /\ Cardinality(ScenariosOf(call[p].target, call[p].scope)) = 1
       /\ SameRow(call[p].ret, call[q].ret)

-----------------------------------------------------------------------------
(* Properties of createResult *)

\* C4 (SpecResults): the only two calls so far are concurrent createResult
\* calls for one scenario, and an insert of one of them was refused as a
\* uniqueness violation; when both have returned, both returned a created
\* result, and the two rows differ in name and in result_number.
C4_LoserRetriesAndSucceeds ==
  \A p, q \in Clients :
    (/\ p # q
     /\ started = 2
     /\ call[p].op = "createResult" /\ call[q].op = "createResult"
     /\ call[p].target = call[q].target
     /\ call[p].conflict \/ call[q].conflict
     /\ call[p].pc = "done" /\ call[q].pc = "done")
    => /\ call[p].ret.kind = "row" /\ call[q].ret.kind = "row"
       /\ \E r1, r2 \in OutputsOf(call[p].target) :
            /\ r1.id = call[p].ret.row.id /\ r2.id = call[q].ret.row.id
            /\ r1.name # r2.name
            /\ r1.result_number # r2.result_number

IsCreate(e) == e.ev = "create"

\* C5 (SpecResultsSeq): every result created in a scenario has a
\* result_number greater than that of every result created before it in the
\* scenario, deleted or not.
C5_NumberNeverReused ==
  \A s \in DOMAIN history :
    \A i, j \in 1..Len(history[s]) :
      (i < j /\ IsCreate(history[s][i]) /\ IsCreate(history[s][j]))
        => history[s][i].num < history[s][j].num

\* the result_numbers present just before event j of history h: created
\* before j and not deleted since
PresentBefore(h, j) ==
  { h[i].num : i \in { i \in 1..(j - 1) :
                         /\ IsCreate(h[i])
                         /\ \A k \in (i + 1)..(j - 1) :
                              ~(h[k].ev = "delete" /\ h[k].num = h[i].num) } }

\* C6 (SpecResultsSeq): with one call at a time, a created result gets 1 when
\* the scenario has no result and otherwise the greatest present
\* result_number plus 1; so three creations on an empty scenario give 1, 2, 3,
\* and deleting result 2 and creating again gives 4.
C6_MaxPlusOne ==
  \A s \in DOMAIN history :
    LET h == history[s]
    IN  /\ \A j \in 1..Len(h) :
             IsCreate(h[j]) =>
               LET present == PresentBefore(h, j)
               IN  IF present = {} THEN h[j].num = 1
                   ELSE /\ h[j].num - 1 \in present
                        /\ \A n \in present : n < h[j].num
        /\ (Len(h) >= 3 /\ \A j \in 1..3 : IsCreate(h[j]))
             => \A j \in 1..3 : h[j].num = j
        /\ (/\ Len(h) >= 5
            /\ \A j \in 1..3 : IsCreate(h[j])
            /\ h[4] = [ev |-> "delete", num |-> 2]
            /\ IsCreate(h[5]))
             => h[5].num = 4

\* C6 witness: three results created, result 2 deleted, a fourth created
C6_Witness ==
  \E s \in DOMAIN history :
    /\ Len(history[s]) = 5
    /\ \A j \in {1, 2, 3, 5} : IsCreate(history[s][j])
    /\ history[s][4] = [ev |-> "delete", num |-> 2]
    /\ { r.result_number : r \in OutputsOf(s) } = {1, 3, 4}

-----------------------------------------------------------------------------
(* Properties of the rename operations and of the unique constraints *)

RenameOps == {"renameProject", "renameScenario", "renameResult"}

\* the rows of the table a rename operation works on
RenamedTable(op) ==
  CASE op = "renameProject" -> projects
    [] op = "renameScenario" -> scenarios
    [] OTHER -> outputs

\* two rows of that table are in one scope of name uniqueness
SameScope(op, r1, r2) ==
  CASE op = "renameProject" -> r1.user_id = r2.user_id
    [] op = "renameScenario" ->
         r1.project_id = r2.project_id /\ r1.module_type = r2.module_type
    [] OTHER -> r1.scenario_id = r2.scenario_id

\* the "already exists" message of the pre-check of a rename operation
ExistsMessage(op, newName) ==
  CASE op = "renameProject" -> ProjectExistsMessage(newName)
    [] op = "renameScenario" -> ScenarioExistsMessage(newName)
    [] OTHER -> ResultExistsMessage(newName)

\* C11 (SpecStore): the only two calls so far are rename calls of one kind,
\* for two different entities of one scope and to the same new name, and both
\* have passed the pre-check and returned: one returned success, the other the failure with the
\* "already exists" message of the pre-check, and exactly one entity of the
\* scope has the new name.
C11_OneRenameWins ==
  \A p, q \in Clients :
    \A r1, r2 \in RenamedTable(call[p].op) :
      (/\ p # q
       /\ call[p].op \in RenameOps /\ call[q].op = call[p].op
       /\ call[p].newName = call[q].newName
       /\ r1.id = call[p].target /\ r2.id = call[q].target /\ r1.id # r2.id
       /\ SameScope(call[p].op, r1, r2)
       /\ ~call[p].found /\ ~call[q].found
       /\ started = 2
       /\ call[p].trips = 2 /\ call[q].trips = 2
       /\ call[p].pc = "done" /\ call[q].pc = "done")
      => /\ {call[p].ret, call[q].ret} =
              {Success, Failure(ExistsMessage(call[p].op, call[p].newName))}
         /\ Cardinality({ r \in RenamedTable(call[p].op) :
                            SameScope(call[p].op, r, r1) /\ r.name = call[p].newName }) = 1

\* C11 witness: two such renameResult calls have returned, one of them
\* refused by the unique constraint
C11_Witness ==
  \E p, q \in Clients :
    /\ p # q
    /\ call[p].op = "renameResult" /\ call[q].op = "renameResult"
    /\ call[p].newName = call[q].newName /\ call[p].target # call[q].target
    /\ ~call[p].found /\ ~call[q].found
    /\ call[p].pc = "done" /\ call[q].pc = "done"
    /\ call[p].ret = Success /\ call[q].conflict

\* C12 (SpecStore): no two projects of one user, no two scenarios of one
\* (project, module_type) and no two results of one scenario share a name.
C12_NamesUniquePerScope ==
  /\ \A r1, r2 \in projects :
       (r1.user_id = r2.user_id /\ r1.name = r2.name) => r1.id = r2.id
  /\ \A r1, r2 \in scenarios :
       (r1.project_id = r2.project_id /\ r1.module_type = r2.module_type
        /\ r1.name = r2.name) => r1.id = r2.id
  /\ \A r1, r2 \in outputs :
       (r1.scenario_id = r2.scenario_id /\ r1.name = r2.name) => r1.id = r2.id

\* C12 witness: two sessions have tried to insert the same scenario name, and
\* the second insert has been refused by the unique constraint
C12_Witness ==
  \E p, q \in Clients :
    /\ call[p].op = "ensureScenario" /\ call[p].created = 1
    /\ call[q].op = "ensureScenario" /\ call[q].conflict

-----------------------------------------------------------------------------
(* Properties of the ensure operations under conflicts, store failures and
   missing authentication *)

EnsureOps == {"ensureProject", "ensureProjectRecent", "ensureScenario"}

\* C13 (SpecScenarios): a call of ensureProject or ensureScenario issues at
\* most one insert.
C13_AtMostOneInsert ==
  \A p \in Clients : call[p].op \in EnsureOps => call[p].inserts <= 1

\* C14 (SpecProjects): a first-found ensureProject whose insert was refused
\* as a uniqueness violation has, when it has returned, returned a project.
C14_RequeryFindsRow ==
  \A p \in Clients :
    (call[p].op = "ensureProject" /\ call[p].conflict /\ call[p].pc = "done")
      => call[p].ret.kind = "row"

\* C15 (SpecFlaky): a call of ensureProject or ensureScenario whose first
\* lookup failed with a store error issues no insert, and returns null.
C15_LookupFailureIsNotMissing ==
  \A p \in Clients :
    (call[p].op \in EnsureOps /\ call[p].lookupError)
      => /\ call[p].inserts = 0
         /\ call[p].pc = "done" => call[p].ret = NullRet

\* C16 (SpecStore): when no user is signed in, a call of ensureProject or
\* ensureScenario has returned null, a call of renameProject has returned
\* success = false, and none of them has made a store call.
C16_NoUserNoStoreCall ==
  authUser = NoUser =>
    \A p \in Clients :
      /\ call[p].op \in EnsureOps =>
           call[p].pc = "done" /\ call[p].ret = NullRet
      /\ call[p].op = "renameProject" =>
           /\ call[p].pc = "done"
           /\ call[p].ret.kind = "status" /\ ~call[p].ret.success
      /\ call[p].op \in EnsureOps \cup {"renameProject"} =>
           call[p].trips = 0 /\ call[p].inserts = 0 /\ call[p].updates = 0

\* C16 witness: without a user, an ensureScenario and a renameProject call
\* have returned
C16_Witness ==
  /\ authUser = NoUser
  /\ \E p, q \in Clients :
       /\ call[p].op = "ensureScenario" /\ call[p].pc = "done"
       /\ call[q].op = "renameProject" /\ call[q].pc = "done"

-----------------------------------------------------------------------------
(* Termination and results of the data functions on a store that may fail *)

\* the kinds of value a data function returns
ReturnKinds(op) ==
  CASE op \in EnsureOps \cup {"createResult", "getResult"} -> {"row", "null"}
    [] op \in RenameOps -> {"status"}
    [] op = "listResults" -> {"list"}
    [] OTHER -> {"row", "null", "list", "status"}

\* a call is running: it has started and not returned
Running(p) == call[p].pc \notin {"idle", "done"}

\* C17 (SpecFlaky): whatever the store answers to each call (success,
\* uniqueness violation, any other error), no exception leaves a data
\* function, a call that has returned has returned an entity, null, a list
\* or { success, error }, and every call that has started returns.
C17_AlwaysReturnsAValue ==
  /\ [](\A p \in Clients :
          /\ call[p].ret.kind # "thrown"
          /\ call[p].pc = "done" => call[p].ret.kind \in ReturnKinds(call[p].op))
  /\ \A p \in Clients : Running(p) ~> (call[p].pc = "done")

\* C17 witness: the insert of createResult failed with an error other than a
\* uniqueness violation, and the call returned null
C17_Witness ==
  \E p \in Clients :
    /\ call[p].op = "createResult" /\ call[p].pc = "done"
    /\ call[p].inserts = 1 /\ ~call[p].conflict
    /\ call[p].ret = NullRet

\* C18 (SpecFlaky): a createResult call issues at most two inserts; when its
\* second insert has failed it has returned null; and every createResult call
\* that has started returns.
C18_OneRetryOnly ==
  /\ [](\A p \in Clients :
          call[p].op = "createResult" =>
            /\ call[p].inserts <= 2
            /\ (call[p].inserts = 2 /\ call[p].created = 0) =>
                 (call[p].pc = "done" /\ call[p].ret = NullRet))
  /\ \A p \in Clients :
       (call[p].op = "createResult" /\ Running(p)) ~> (call[p].pc = "done")

\* C18 witness: both inserts of a createResult call were refused as
\* uniqueness violations, and the call returned null
C18_Witness ==
  \E p \in Clients :
    /\ call[p].op = "createResult" /\ call[p].pc = "done"
    /\ call[p].inserts = 2 /\ call[p].created = 0 /\ call[p].conflict
    /\ call[p].ret = NullRet

-----------------------------------------------------------------------------
(* Scenario status *)

StatusChanges ==
  { <<"pending", "running">>, <<"running", "completed">>, <<"running", "failed">> }

\* C19 (SpecStatus): every scenario is created pending, and every change of a
\* scenario's status is pending -> running, running -> completed or
\* running -> failed.
C19_StatusStateMachine ==
  \A p \in Clients :
    (call[p].statusTo # "" /\ call[p].statusFrom # "")
      => (call[p].statusFrom = call[p].statusTo
          \/ <<call[p].statusFrom, call[p].statusTo>> \in StatusChanges)

-----------------------------------------------------------------------------
(* Pages of results *)

\* the elements of a sequence
Elements(s) == { s[i] : i \in 1..Len(s) }

Smaller(a, b) == IF a < b THEN a ELSE b

\* C20 (SpecListing): listResults(s, {limit: L, offset: 0}) and then
\* listResults(s, {limit: L, offset: L}), with no call between them: the first
\* page followed by the second is a sequence of results of the scenario with
\* strictly decreasing created_at (so without repetition), the first page has
\* L results or all of them, the two have 2L results or all of them, and
\* every result of the scenario not on them is older than all that are.
C20_PagesDoNotOverlap ==
  \A p, q \in Clients :
    (/\ call[p].op = "listResults" /\ call[q].op = "listResults"
     /\ call[p].target = call[q].target
     /\ call[p].limit = call[q].limit
     /\ call[p].offset = 0 /\ call[q].offset = call[p].limit
     /\ call[q].seq = call[p].seq + 1)
    => LET all == OutputsOf(call[p].target)
           s == call[p].ret.rows \o call[q].ret.rows
       IN  /\ call[p].ret.kind = "list" /\ call[q].ret.kind = "list"
           /\ Elements(s) \subseteq all
           /\ \A i, j \in 1..Len(s) : i < j => s[i].created_at > s[j].created_at
           /\ Len(call[p].ret.rows) = Smaller(call[p].limit, Cardinality(all))
           /\ Len(s) = Smaller(2 * call[p].limit, Cardinality(all))
           /\ \A r \in all \ Elements(s) :
                \A i \in 1..Len(s) : r.created_at < s[i].created_at

\* C20 witness: two full pages of two results each, out of five results
C20_Witness ==
  \E p, q \in Clients :
    /\ call[p].op = "listResults" /\ call[q].op = "listResults"
    /\ call[p].target = call[q].target
    /\ call[p].limit = 2 /\ call[q].limit = 2
    /\ call[p].offset = 0 /\ call[q].offset = 2
    /\ call[q].seq = call[p].seq + 1
    /\ Len(call[p].ret.rows) = 2 /\ Len(call[q].ret.rows) = 2
    /\ Cardinality(OutputsOf(call[p].target)) = 5

-----------------------------------------------------------------------------
(* Properties of the local result history (SpecHistory) *)

\* a call of addScenarioResult on scenario s is this step
IsLocalAdd(s) == Len(local'.log[s]) = Len(local.log[s]) + 1

\* C21: addScenarioResult appends one entry to the scenario's history and
\* returns the length before the call plus 1; after n adds on an empty
\* history getScenarioResults returns n entries, in insertion order, numbered
\* 1, 2, ..., n.
C21_LocalCountNumbering ==
  /\ [][\A s \in HistoryScenarios :
          IsLocalAdd(s) =>
            /\ local'.ret.number = Len(getScenarioResults(s)) + 1
            /\ Len(getScenarioResults(s)') = Len(getScenarioResults(s)) + 1
            /\ SubSeq(getScenarioResults(s)', 1, Len(getScenarioResults(s)))
                 = getScenarioResults(s)
            /\ \A o \in HistoryScenarios \ {s} :
                 getScenarioResults(o)' = getScenarioResults(o)]_vars
  /\ [](\A s \in HistoryScenarios :
          /\ Len(getScenarioResults(s)) = Len(local.log[s])
          /\ \A i \in 1..Len(local.log[s]) :
               /\ getScenarioResults(s)[i].resultNumber = i
               /\ getScenarioResults(s)[i].data = local.log[s][i].data
               /\ getScenarioResults(s)[i].timestamp = local.log[s][i].timestamp)

\* C21 witness: the third add on a scenario returned 3
C21_Witness ==
  /\ local.op = "addScenarioResult"
  /\ Len(local.log[local.scenarioId]) = 3
  /\ local.ret.number = 3
  /\ Len(getScenarioResults(local.scenarioId)) = 3

\* C22: getLatestResult returns null for a scenario without stored results
\* and otherwise the entry added last; after clearScenarioResults the list is
\* empty, getLatestResult is null and the next add returns 1.
C22_LatestAndClear ==
  /\ [](local.op = "getLatestResult" =>
          LET added == local.log[local.scenarioId]
          IN  IF added = <<>> THEN local.ret = NullRet
              ELSE /\ local.ret.kind = "row"
                   /\ local.ret.row.resultNumber = Len(added)
                   /\ local.ret.row.data = added[Len(added)].data)
  /\ [][\A s \in HistoryScenarios :
          (local'.op = "clearScenarioResults" /\ local'.scenarioId = s) =>
            /\ getScenarioResults(s)' = <<>>
            /\ getLatestResult(s)' = NullRet]_vars
  /\ [][\A s \in HistoryScenarios :
          (IsLocalAdd(s) /\ local.op = "clearScenarioResults" /\ local.scenarioId = s)
            => local'.ret.number = 1]_vars

\* C22 witness: getLatestResult returned the second of two results, the first
\* with a payload and the second without
C22_Witness ==
  /\ local.op = "getLatestResult"
  /\ Len(local.log[local.scenarioId]) = 2
  /\ local.log[local.scenarioId][1].data = "forecast"
  /\ local.ret.kind = "row"
  /\ local.ret.row.resultNumber = 2
  /\ local.ret.row.data = Undefined

-----------------------------------------------------------------------------
(* Properties of result names (SpecResultNames) *)

\* another result of the scenario of result id is named name
NamedInScenario(id, name) ==
  \E t \in outputs, r \in outputs :
    t.id = id /\ r.scenario_id = t.scenario_id /\ r.id # id /\ r.name = name

\* client p returns from renameResult in this step
RenameResultReturns(p) ==
  /\ call'[p].op = "renameResult" /\ call'[p].pc = "done"
  /\ call[p].pc # "done" \/ call[p].seq # call'[p].seq

\* C23: renameResult fails with the "already exists" error and changes nothing
\* when another result of the same scenario has the new name, and succeeds,
\* giving the result the new name, when only results of other scenarios have it.
C23_RenameResultScopedToScenario ==
  [][\A p \in Clients :
       RenameResultReturns(p) =>
         IF NamedInScenario(call'[p].target, call'[p].newName)
         THEN /\ call'[p].ret = Failure(ResultExistsMessage(call'[p].newName))
              /\ UNCHANGED storeVars
         ELSE /\ call'[p].ret = Success
              /\ \E r \in outputs' : r.id = call'[p].target /\ r.name = call'[p].newName]_vars

\* C23 witness: a rename has succeeded to a name that a result of another
\* scenario has
C23_Witness ==
  \E p \in Clients, r \in outputs, q \in outputs :
    /\ call[p].op = "renameResult" /\ call[p].pc = "done" /\ call[p].ret = Success
    /\ ~call[p].own
    /\ r.id = call[p].target /\ r.name = call[p].newName
    /\ q.scenario_id # r.scenario_id /\ q.name = r.name

\* the numbers m for which a result of the scenario is named "Result m",
\* the label compared without regard to case
NumbersNamed(scenarioId) ==
  { m \in 1..Len(Numeral) :
      \E r \in OutputsOf(scenarioId) : FoldAll(r.name) = FoldAll(Numbered(Result, m)) }

-----------------------------------------------------------------------------
(* Case of the base label (SpecNames) *)

\* "{base} 1" with the label in lower case
LowerCaseFirst == FoldAll(base) \o <<" ","1">>

\* C25: an existing name that differs from "{base} k" only in the case of
\* the label counts k as used, and the returned name has the label exactly
\* as passed in.
C25_LabelCaseInsensitive ==
  (out # <<>> /\ existing \cap RespelledNames(base) = {LowerCaseFirst})
    => \E m \in 2..Len(Numeral) :
         /\ m \notin ListedNumbers
         /\ \A j \in 2..(m - 1) : j \in ListedNumbers
         /\ out = Numbered(base, m)

\* C25 witness: {"result 1"} with base "Result" gives "Result 2"
C25_Witness ==
  /\ base = Result
  /\ existing = {<<"r","e","s","u","l","t"," ","1">>}
  /\ out = <<"R","e","s","u","l","t"," ","2">>

-----------------------------------------------------------------------------
(* Frame of the ensure and rename operations (SpecStore) *)

\* client p makes its first store call of an ensure operation in this step
EnsureStarts(p) ==
  /\ started' = started + 1
  /\ call'[p].seq = started + 1
  /\ call'[p].op \in EnsureOps
  /\ call'[p].trips = 1

\* the rows of the scope of the ensure call client p starts
ScopeRows(p) ==
  IF call'[p].op = "ensureScenario"
  THEN { r \in scenarios : r.project_id = call'[p].target /\ r.module_type = call'[p].scope }
  ELSE { r \in projects : r.user_id = call'[p].user /\ r.tool_type = call'[p].scope }

\* C26: when an entity exists for the scope, ensureProject / ensureScenario
\* returns it with that one query: no insert, no update, every row of the
\* store unchanged.
C26_FoundIsReturnedUnmodified ==
  [][\A p \in Clients :
       (EnsureStarts(p) /\ ScopeRows(p) # {}) =>
         /\ call'[p].pc = "done"
         /\ call'[p].ret.kind = "row"
         /\ call'[p].ret.row \in ScopeRows(p)
         /\ call'[p].inserts = 0 /\ call'[p].updates = 0
         /\ UNCHANGED storeVars]_vars

\* C26 witness: an ensureScenario has returned one of the two scenarios of
\* its scope, which is still in the store
C26_Witness ==
  \E p \in Clients :
    /\ call[p].op = "ensureScenario" /\ call[p].pc = "done" /\ call[p].found
    /\ call[p].ret.kind = "row"
    /\ call[p].ret.row \in scenarios
    /\ Cardinality(ScenariosOf(call[p].target, call[p].scope)) = 2

\* client p takes a step of a rename operation
RenameActs(p) == call'[p].op \in RenameOps /\ call'[p] # call[p]

\* the rows of the table of operation op after the step
RenamedTableAfter(op) ==
  CASE op = "renameProject" -> projects'
    [] op = "renameScenario" -> scenarios'
    [] OTHER -> outputs'

\* C27: a rename that succeeds changes the name of the row with the given id
\* and nothing else, in that row or in any other; a rename that fails, and
\* the pre-check of any rename, change nothing.
C27_RenameChangesNameOnly ==
  [][\A p \in Clients :
       RenameActs(p) =>
         IF call'[p].pc = "done" /\ call'[p].ret = Success
         THEN /\ RenamedTableAfter(call'[p].op) =
                   { IF r.id = call'[p].target
                     THEN [r EXCEPT !.name = call'[p].newName] ELSE r :
                     r \in RenamedTable(call'[p].op) }
              /\ \A op \in RenameOps \ {call'[p].op} :
                   RenamedTableAfter(op) = RenamedTable(op)
              /\ UNCHANGED <<clock, nextId>>
         ELSE UNCHANGED storeVars]_vars

\* C27 witness: scenario #4 has been renamed to "Plan" and has kept its
\* other fields
C27_Witness ==
  \E p \in Clients, r \in scenarios :
    /\ call[p].op = "renameScenario" /\ call[p].pc = "done" /\ call[p].ret = Success
    /\ r.id = call[p].target
    /\ r = ScenarioRow(4, 1, Me, "gfa", Plan, 4)

-----------------------------------------------------------------------------
(* Names of the projects ensureProject creates (SpecProjectsSeq, SpecProjects) *)

\* C28 (SpecProjectsSeq): with one call at a time, the insert of the
\* first-found ensureProject never fails with a uniqueness violation,
\* whatever projects the user has.
C28_InsertNeverConflicts ==
  \A p \in Clients : call[p].op = "ensureProject" => ~call[p].conflict

\* the prefix of each tool type, written out
WrittenPrefix(toolType) ==
  CASE toolType = "gfa" -> <<"G","F","A">>
    [] toolType = "forecasting" -> <<"D","F">>
    [] toolType = "inventory" -> <<"I","O">>
    [] toolType = "network" -> <<"N","e","t","w","o","r","k">>
    [] toolType = "transportation" -> <<"T","r","a","n","s","p","o","r","t">>

\* the numbers k for which a project of this user and tool type is named
\* "<prefix> k"
PrefixNumbers(user, toolType) ==
  { k \in 1..Len(Numeral) :
      \E r \in projects : /\ r.user_id = user /\ r.tool_type = toolType
                           /\ r.name = Numbered(WrittenPrefix(toolType), k) }

\* C29 (SpecPrefixes): the name the first-found ensureProject computes, and
\* inserts, is "<prefix> N" with the prefix of the tool type and N the
\* smallest positive integer no "<prefix> k" name of the user's projects of
\* that tool type uses; the first project of a tool type is "<prefix> 1".
C29_PrefixAndSmallestNumber ==
  [][\A p \in Clients :
       /\ (call[p].op = "ensureProject" /\ call[p].pc = "ep_list" /\ call'[p].pc = "ep_insert")
            => \E m \in 1..Len(Numeral) :
                 /\ m \notin PrefixNumbers(call[p].user, call[p].scope)
                 /\ \A j \in 1..(m - 1) : j \in PrefixNumbers(call[p].user, call[p].scope)
                 /\ call'[p].name = Numbered(WrittenPrefix(call[p].scope), m)
       /\ (call[p].op = "ensureProject" /\ call[p].pc = "ep_insert" /\ call'[p] # call[p])
            => \A r \in { q \in projects' : \A o \in projects : o.id # q.id } :
                 /\ r.name = call[p].name
                 /\ r.tool_type = call[p].scope /\ r.user_id = call[p].user
                 /\ (\A o \in projects : o.user_id = r.user_id => o.tool_type # r.tool_type)
                      => r.name = Numbered(WrittenPrefix(r.tool_type), 1)]_vars

\* C29 witness: ensureProject has created "GFA 2" for a user whose only gfa
\* project is "GFA 1", created by the other session after the query
C29_Witness ==
  \E p \in Clients, r \in projects :
    /\ call[p].op = "ensureProject" /\ call[p].pc = "done" /\ call[p].created = 1
    /\ call[p].ret = RowRet(r)
    /\ r.tool_type = "gfa"
    /\ r.name = <<"G","F","A"," ","2">>

-----------------------------------------------------------------------------
(* Field values of inserted rows (SpecDefaults) *)

\* the rows of a table that the step inserts
Inserted(before, after) == { q \in after : \A o \in before : o.id # q.id }

\* C30: a scenario is inserted with status 'pending' and null description, a
\* project with null description, empty input_data and results_data and
\* size_mb 0, and a result, by the first insert of createResult or by its
\* retry, with version 1.
C30_InsertedDefaults ==
  [][/\ \A r \in Inserted(scenarios, scenarios') :
          r.status = "pending" /\ r.description = "null"
     /\ \A r \in Inserted(projects, projects') :
          /\ r.description = "null"
          /\ r.input_data = "{}" /\ r.results_data = "{}"
          /\ r.size_mb = 0
     /\ \A r \in Inserted(outputs, outputs') : r.version = 1]_vars

\* C30 witness: createResult has inserted a result with result_number 2 by
\* its retry, after the first insert met a name taken by a concurrent rename
C30_Witness ==
  \E p \in Clients, r \in outputs :
    /\ call[p].op = "createResult" /\ call[p].pc = "done"
    /\ call[p].conflict /\ call[p].inserts = 2 /\ call[p].created = 1
    /\ r.id = call[p].ret.row.id
    /\ r.result_number = 2 /\ r.version = 1

-----------------------------------------------------------------------------
(* Reuse policy of ensureScenario (SpecStore) *)

\* C31: when several scenarios exist for the (project, module_type) of the
\* call, ensureScenario returns the one whose updated_at is greater than that
\* of every other scenario of the scope, so the row returned is determined by
\* the state of the store.
C31_MostRecentlyUpdatedReuse ==
  [][\A p \in Clients :
       (EnsureStarts(p) /\ call'[p].op = "ensureScenario" /\ ScopeRows(p) # {}) =>
         /\ call'[p].pc = "done"
         /\ call'[p].ret.kind = "row"
         /\ call'[p].ret.row \in ScopeRows(p)
         /\ \A q \in ScopeRows(p) \ {call'[p].ret.row} :
              q.updated_at < call'[p].ret.row.updated_at]_vars

\* C31 witness: of the two scenarios of project 1 and module gfa,
\* ensureScenario has returned the one written last (id 4), not the other
C31_Witness ==
  \E p \in Clients, q \in scenarios :
    /\ call[p].op = "ensureScenario" /\ call[p].pc = "done" /\ call[p].found
    /\ call[p].ret.kind = "row"
    /\ call[p].ret.row.id = 4
    /\ q.id = 3 /\ q.project_id = call[p].target /\ q.module_type = call[p].scope
    /\ q.updated_at < call[p].ret.row.updated_at

-----------------------------------------------------------------------------
(* The create-scenario dialog (SpecCreateScenario) *)

\* handleCreateScenario of client p has run to its end
HandlerEnded(p) ==
  /\ call[p].ui = "handleCreateScenario"
  /\ call[p].op \in {"renameScenario", "handleCreateScenario"}
  /\ call[p].pc = "done"

\* C32: handleCreateScenario with a non-empty name N, on a project that has a
\* scenario of the module (none of them named N), creates one more: at its end
\* the scope holds a scenario named N that it did not hold before, and every
\* scenario it held before is there under its old name.
C32_CreatesAdditionalScenario ==
  \A p \in Clients :
    (/\ HandlerEnded(p)
     /\ trim(call[p].newName) # <<>>
     /\ call[p].before # {}
     /\ \A b \in call[p].before : b.name # call[p].newName) =>
      /\ \E r \in scenarios :
           /\ \E b \in call[p].before :
                r.project_id = b.project_id /\ r.module_type = b.module_type
           /\ r.name = call[p].newName
           /\ \A b \in call[p].before : b.id # r.id
      /\ \A b \in call[p].before :
           \E r \in scenarios : r.id = b.id /\ r.name = b.name

-----------------------------------------------------------------------------
(* saveScenarioOutput (SpecSave) *)

\* saveScenarioOutput of client p has returned, after its createResult
SaveReturned(p) == call[p].op = "createResult" /\ call[p].pc = "returned"

\* C33: the number saveScenarioOutput returns is the result_number of the row
\* the call created, and when no row was created the number returned is not 1,
\* the number of a first result.
C33_ReturnsResultNumber ==
  \A p \in Clients :
    SaveReturned(p) =>
      IF call[p].ret.kind = "row"
      THEN /\ call[p].saved = call[p].num
           /\ \A r \in outputs :
                r.id = call[p].ret.row.id => r.result_number = call[p].saved
      ELSE call[p].saved # 1

\* client p takes a step of saveScenarioOutput
SaveActs(p) == call[p].op = "createResult" /\ call'[p] # call[p]

\* C34: saveScenarioOutput writes the status 'completed', of its own scenario
\* and of no other, only once its createResult has returned a row it
\* inserted; when createResult has returned null, no scenario is changed.
C34_CompletedOnlyAfterCreation ==
  [][\A p \in Clients :
       SaveActs(p) =>
         /\ scenarios' # scenarios =>
              /\ call[p].pc = "done"
              /\ call[p].ret.kind = "row" /\ call[p].created = 1
              /\ scenarios' = updateScenario(scenarios, call[p].target, "completed")
         /\ (call[p].pc = "done" /\ call[p].ret.kind = "null") =>
              /\ UNCHANGED scenarios
              /\ call'[p].pc = "returned"]_vars

\* C34 witness: a createResult that lost both inserts has returned null,
\* saveScenarioOutput has returned, and the scenario is still pending
C34_Witness ==
  \E p \in Clients :
    /\ SaveReturned(p)
    /\ call[p].ret.kind = "null" /\ call[p].conflict /\ call[p].updates = 0
    /\ StatusOf(call[p].target) = "pending"

-----------------------------------------------------------------------------
(* What a successful rename has done (SpecRenames) *)

\* C35: when renameProject, renameScenario or renameResult returns
\* success = true, the row with the given id is in the store under newName
\* right after the update.
C35_SuccessMeansRenamed ==
  [][\A p \in Clients :
       (/\ RenameActs(p)
        /\ call'[p].pc = "done"
        /\ call'[p].ret.success) =>
         \E r \in RenamedTableAfter(call'[p].op) :
           r.id = call'[p].target /\ r.name = call'[p].newName]_vars

-----------------------------------------------------------------------------
(* Order of the result numbers (SpecOrder) *)

\* the rows of a scenario written last: the head of listResults
LatestCreated(scenarioId) ==
  { r \in OutputsOf(scenarioId) :
      \A q \in OutputsOf(scenarioId) : q.created_at <= r.created_at }

\* C36: under any interleaving of createResult calls and deletions on one
\* scenario, the result numbers of its results are pairwise distinct, a result
\* created later has a greater number than every result created earlier that
\* is still there, and so the latest result by created_at is the latest by
\* result_number.
C36_NumbersFollowCreation ==
  \A s \in OrderScenarios :
    /\ \A r, q \in OutputsOf(s) :
         /\ r # q => r.result_number # q.result_number
         /\ r.created_at < q.created_at => r.result_number < q.result_number
    /\ LatestCreated(s) = loadScenarioOutput(s)

-----------------------------------------------------------------------------
(* Names and numbers of results that were only created (SpecCreateOnly) *)

\* C37: when results are only created by createResult, never deleted or
\* renamed, every result is named "Result n" with n its result_number, in
\* every reachable state, concurrent calls included.
C37_NameIsNumber ==
  \A r \in outputs : r.name = Numbered(Result, r.result_number)

\* C37 witness: two calls for one scenario have overlapped, one of them met a
\* conflict, and the scenario has its results 1 and 2
C37_Witness ==
  \E p \in Clients, r, q \in outputs :
    /\ call[p].op = "createResult" /\ call[p].conflict
    /\ r.scenario_id = call[p].target /\ q.scenario_id = call[p].target
    /\ r.result_number = 1 /\ q.result_number = 2
    /\ r.name = Numbered(Result, 1) /\ q.name = Numbered(Result, 2)

-----------------------------------------------------------------------------
(* Frame of the local result history (SpecHistory) *)

\* the step is addScenarioResult or clearScenarioResults on scenario a
WritesLocal(a) ==
  /\ local'.op \in {"addScenarioResult", "clearScenarioResults"}
  /\ local'.scenarioId = a
  /\ localStorage' # localStorage

\* C38: addScenarioResult and clearScenarioResults on scenario A leave what
\* is stored for every other scenario B, and so B's history, unchanged.
C38_OtherHistoriesUntouched ==
  [][\A a \in HistoryScenarios :
       WritesLocal(a) =>
         \A b \in LocalScenarios \ {a} :
           /\ localStorage'[LocalKey(b)] = localStorage[LocalKey(b)]
           /\ getScenarioResults(b)' = getScenarioResults(b)
           /\ getLatestResult(b)' = getLatestResult(b)]_vars

\* C38 witness: the history of scenario 1 has just been cleared while
\* scenario 2 keeps its two results
C38_Witness ==
  /\ local.op = "clearScenarioResults" /\ local.scenarioId = 1
  /\ localStorage[LocalKey(1)] = NoItem
  /\ Len(local.log[2]) = 2
  /\ Len(getScenarioResults(2)) = 2
  /\ getScenarioResults(2)[2].resultNumber = 2

=============================================================================
